---- MODULE Spec2Model ----
(***************************************************************************)
(* Internet Fax Worker: the three fax providers (Telnyx, Dropbox Fax,      *)
(* Sinch), the provider resolver and the request router, modelled as a     *)
(* state machine over the Blob Store (Workers KV).                         *)
(*                                                                         *)
(* A handler runs as a process: it starts with its inputs, and every       *)
(* later action is the completion of the operation it awaits (an outbound  *)
(* fetch, a kv.put) followed by the code up to the next await.             *)
(***************************************************************************)
EXTENDS Integers, Sequences, FiniteSets, TLC

VARIABLES
    kv,     \* the Blob Store: a function from the keys written to their values
    pc,     \* pc[p]: where handler process p stands
    call,   \* call[p]: the inputs of p's invocation (operation, provider, ctx, request)
    loc,    \* loc[p]: the handler's local variables that outlive an await
    out,    \* out[p]: how the invocation ended: a result, a Response, or a throw
    puts,   \* puts[p]: the kv.put calls the invocation has completed, in order
    http    \* http[p]: the outbound fetch calls the invocation has issued, in order

vars == <<kv, pc, call, loc, out, puts, http>>

Procs == {"p1"}

(***************************************************************************)
(* JavaScript values.  Every value is a record with a tag t, so that any   *)
(* two values can be compared.                                             *)
(***************************************************************************)
JUndefined == [t |-> "undefined"]
JNull == [t |-> "null"]
JStr(s) == [t |-> "string", s |-> s]
JNum(n) == [t |-> "number", n |-> n]
JArr(a) == [t |-> "array", a |-> a]
JObj(f) == [t |-> "object", f |-> f]
JBool(b) == [t |-> "boolean", b |-> b]
\* An ArrayBuffer holding the bytes b.
JBytes(b) == [t |-> "bytes", b |-> b]
\* The JS string that holds a whole body text b (see Bodies below).
JText(b) == [t |-> "text", body |-> b]

EmptyMap == [x \in {} |-> ""]

\* v == null || v === undefined
IsNullish(v) == v.t \in {"undefined", "null"}

\* JavaScript truthiness
IsTruthy(v) ==
    CASE v.t \in {"undefined", "null"} -> FALSE
      [] v.t = "string" -> v.s # ""
      [] v.t = "number" -> v.n # 0
      [] v.t = "boolean" -> v.b
      [] OTHER -> TRUE

\* v?.name : undefined on null and undefined, the own property otherwise
OptGet(v, name) ==
    IF v.t = "object" /\ name \in DOMAIN v.f THEN v.f[name] ELSE JUndefined

\* a ?? b
Coalesce(a, b) == IF IsNullish(a) THEN b ELSE a

\* a || b
OrElse(a, b) == IF IsTruthy(a) THEN a ELSE b

\* `${v}` : the string a template literal makes of a value
NumStr(n) == CASE n = 0 -> "0" [] n = 7 -> "7" [] OTHER -> "42"
ToStr(v) ==
    CASE v.t = "string" -> v.s
      [] v.t = "number" -> NumStr(v.n)
      [] v.t = "undefined" -> "undefined"
      [] v.t = "null" -> "null"
      [] v.t = "array" -> ""
      [] v.t = "boolean" -> IF v.b THEN "true" ELSE "false"
      [] OTHER -> "[object Object]"

(***************************************************************************)
(* Body texts.  A body is the text on the wire: the serialisation of a     *)
(* JSON value, a multipart form, a URL-encoded form, or a text that is     *)
(* none of these.                                                          *)
(***************************************************************************)
JsonBody(v) == [enc |-> "json", val |-> v]
TextBody(s) == [enc |-> "text", text |-> s]
FormBody(fields, files) == [enc |-> "form", fields |-> fields, files |-> files]
UrlEncBody(fields) == [enc |-> "urlenc", fields |-> fields]

\* JSON.parse / Response.json() / Request.json(): defined on JSON texts only
ParsesAsJson(b) == b.enc = "json"
JsonParse(b) == b.val

\* JSON.stringify(v): the body text that parses back to v (undefined for undefined)
JsonStringify(v) == IF v.t = "undefined" THEN JUndefined ELSE JText(JsonBody(v))

(***************************************************************************)
(* Configuration: env is a function from the configured names to strings.  *)
(***************************************************************************)
\* !env.NAME is false: the name is configured and not the empty string
Configured(env, name) == name \in DOMAIN env /\ env[name] # ""

\* env.NAME
EnvGet(env, name) == IF name \in DOMAIN env THEN JStr(env[name]) ELSE JUndefined

Opt(name, values) == {EmptyMap} \cup {name :> v : v \in values}

\* btoa(s): base64, an injective encoding (modelled by a wrapper, not by s itself)
btoa(s) == "b64[" \o s \o "]"

\* Response.ok
IsOk(status) == status >= 200 /\ status <= 299

(***************************************************************************)
(* Outcomes of an invocation and the records of its effects.               *)
(***************************************************************************)
NoOutcome == [kind |-> "none"]
\* ProviderSendResult
SendResult(ok, status, fax, raw) ==
    [kind |-> "result", ok |-> ok, status |-> status, fax |-> fax, raw |-> raw]
\* new Response(JSON.stringify(body), { status })
JsonResponse(status, body) == [kind |-> "response", status |-> status, body |-> body]
\* new Response(text, { status }) with a plain-text body
TextResponse(status, text) == [kind |-> "response", status |-> status, body |-> JStr(text)]
\* the invocation ended by an exception leaving the method
Thrown(error) == [kind |-> "throw", error |-> error]

HttpCall(method, url, headers, body) ==
    [method |-> method, url |-> url, headers |-> headers, body |-> body]

\* The replies an outbound fetch can get: a network fault (fetch rejects) or a
\* response with a status and a body text.
NetworkFault == [fault |-> TRUE]
Reply(status, body) == [fault |-> FALSE, status |-> status, body |-> body]

(***************************************************************************)
(* Inputs.                                                                 *)
(***************************************************************************)
RequestIds == {"req-1"}
BaseUrls == {"https://worker.example"}
Ctx(requestId, baseUrl, env) == [requestId |-> requestId, baseUrl |-> baseUrl, env |-> env]
Ctxs(envs) == {Ctx(r, b, e) : r \in RequestIds, b \in BaseUrls, e \in envs}

SendParams == {[to |-> "+15558675309", mediaUrl |-> "https://worker.example/media/file.pdf"]}

TelnyxEnvs ==
    {a @@ b @@ c : a \in Opt("TELNYX_API_KEY", {"", "key_123"}),
                   b \in Opt("CONNECTION_ID", {"", "conn_123"}),
                   c \in Opt("FAX_FROM", {"", "+15551234567"})}
DropboxEnvs ==
    {a @@ b @@ c : a \in Opt("DROPBOX_SIGN_API_KEY", {"", "dbx_key"}),
                   b \in Opt("DROPBOX_FAX_TEST_MODE", {"0", "1", "false"}),
                   c \in Opt("FAX_FROM", {"", "+15551234567"})}
SinchEnvs ==
    {a @@ b @@ c @@ d : a \in Opt("SINCH_PROJECT_ID", {"", "project_1"}),
                        b \in Opt("SINCH_ACCESS_KEY", {"", "access"}),
                        c \in Opt("SINCH_SECRET_KEY", {"", "secret"}),
                        d \in Opt("FAX_FROM", {"+15551234567"})}

\* What a vendor answers to the send call.
VendorStatuses == {200, 202, 404, 500}
VendorBodies ==
    { JsonBody(JObj("data" :> JObj("id" :> JStr("fax_123")))),
      JsonBody(JObj("errors" :> JArr(<<>>))),
      TextBody("<html>502 Bad Gateway</html>"),
      TextBody("") }
VendorReplies ==
    {NetworkFault} \cup {Reply(s, b) : s \in VendorStatuses, b \in VendorBodies}

(***************************************************************************)
(* How a provider method hands its outcome back.  Called directly, the     *)
(* outcome is the invocation's; called by the router, the router's code    *)
(* after the call runs in the same step (it awaits nothing more).          *)
(***************************************************************************)
\* fetch, after `await provider.sendFax(...)`: json({ ok, requestId, fax }, status)
RouterSendResponse(o, requestId) ==
    IF o.kind = "throw" THEN o
    ELSE JsonResponse(o.status,
                      JObj([ok |-> JBool(o.ok), requestId |-> JStr(requestId), fax |-> o.fax]))

\* l: the locals of the method that returns (how it was called, and its ctx)
Return(p, l, o) ==
    /\ pc' = [pc EXCEPT ![p] = "done"]
    /\ out' = [out EXCEPT ![p] =
                  IF l.via = "routerSend"
                  THEN RouterSendResponse(o, l.ctx.requestId)
                  ELSE o]

(***************************************************************************)
(* TelnyxProvider.sendFax                                                  *)
(***************************************************************************)
TelnyxName == "telnyx"
TelnyxWebhookPath == "/telnyx/fax-rx"

\* TelnyxMissingConfig without its FAX_FROM check
TelnyxMissingConfigNoFrom(env) ==
    IF ~Configured(env, "TELNYX_API_KEY") THEN "TELNYX_API_KEY"
    ELSE IF ~Configured(env, "CONNECTION_ID") THEN "CONNECTION_ID"
    ELSE ""

\* The first required setting that is not configured, "" when all are.
TelnyxMissingConfig(env) ==
    IF ~Configured(env, "TELNYX_API_KEY") THEN "TELNYX_API_KEY"
    ELSE IF ~Configured(env, "CONNECTION_ID") THEN "CONNECTION_ID"
    ELSE IF ~Configured(env, "FAX_FROM") THEN "FAX_FROM"
    ELSE ""

ConfigError(message) ==
    SendResult(FALSE, 500, JNull, JObj("error" :> JStr(message \o " not configured")))

TelnyxAuthHeader(env) == "Bearer " \o ToStr(EnvGet(env, "TELNYX_API_KEY"))

\* TelnyxSendRequest giving the worker's origin as the webhook URL, without the path
TelnyxSendRequestOriginOnly(params, ctx) ==
    HttpCall("POST", "https://api.telnyx.com/v2/faxes",
             [authorization |-> TelnyxAuthHeader(ctx.env),
              contentType |-> "application/json"],
             JsonStringify(JObj(
                 [connection_id |-> EnvGet(ctx.env, "CONNECTION_ID"),
                  from |-> EnvGet(ctx.env, "FAX_FROM"),
                  to |-> JStr(params.to),
                  media_url |-> JStr(params.mediaUrl),
                  quality |-> JStr("high"),
                  t38_enabled |-> JBool(TRUE),
                  webhook_url |-> JStr(ctx.baseUrl)])))

TelnyxSendRequest(params, ctx) ==
    HttpCall("POST", "https://api.telnyx.com/v2/faxes",
             [authorization |-> TelnyxAuthHeader(ctx.env),
              contentType |-> "application/json"],
             JsonStringify(JObj(
                 [connection_id |-> EnvGet(ctx.env, "CONNECTION_ID"),
                  from |-> EnvGet(ctx.env, "FAX_FROM"),
                  to |-> JStr(params.to),
                  media_url |-> JStr(params.mediaUrl),
                  quality |-> JStr("high"),
                  t38_enabled |-> JBool(TRUE),
                  webhook_url |-> JStr(ctx.baseUrl \o TelnyxWebhookPath)])))

\* sendFax up to its first await: the configuration checks, then the fetch is issued.
TelnyxSendFaxBegin(p, params, ctx, via) ==
    /\ loc' = [loc EXCEPT ![p] = [via |-> via, ctx |-> ctx, params |-> params]]
    /\ IF TelnyxMissingConfig(ctx.env) # ""
       THEN /\ Return(p, [via |-> via, ctx |-> ctx],
                      ConfigError(TelnyxMissingConfig(ctx.env)))
            /\ UNCHANGED http
       ELSE /\ http' = [http EXCEPT ![p] = Append(@, TelnyxSendRequest(params, ctx))]
            /\ pc' = [pc EXCEPT ![p] = "telnyx_send"]
            /\ UNCHANGED out

\* What sendFax makes of the vendor's reply: `await telnyxRes.json()` rejects
\* on a body that is not JSON, and nothing catches it.
TelnyxSendOutcome(r) ==
    IF r.fault THEN Thrown("TypeError: fetch failed")
    ELSE IF ~ParsesAsJson(r.body) THEN Thrown("SyntaxError: Unexpected token")
    ELSE SendResult(IsOk(r.status), r.status, JsonParse(r.body), JsonParse(r.body))

\* the fetch settles and sendFax runs to its end
TelnyxSendFaxReply(p) ==
    /\ pc[p] = "telnyx_send"
    /\ \E r \in VendorReplies :
          /\ Return(p, loc[p], TelnyxSendOutcome(r))
          /\ loc' = [loc EXCEPT ![p] = [reply |-> r] @@ @]
    /\ UNCHANGED <<kv, call, puts, http>>

\* a direct call of TelnyxProvider.sendFax(params, ctx)
TelnyxSendFax(p) ==
    /\ pc[p] = "idle"
    /\ \E params \in SendParams, ctx \in Ctxs(TelnyxEnvs) :
          /\ call' = [call EXCEPT ![p] =
                         [op |-> "sendFax", provider |-> TelnyxName,
                          params |-> params, ctx |-> ctx]]
          /\ TelnyxSendFaxBegin(p, params, ctx, "direct")
    /\ UNCHANGED <<kv, puts>>

(***************************************************************************)
(* DropboxFaxProvider.sendFax                                              *)
(***************************************************************************)
DropboxName == "dropbox-fax"
DropboxWebhookPath == "/dropbox/fax-rx"

DropboxMissingConfig(env) ==
    IF ~Configured(env, "DROPBOX_SIGN_API_KEY") THEN "DROPBOX_SIGN_API_KEY" ELSE ""

\* DropboxTestMode as an opt-in: on only when the variable is set to "1"
DropboxTestModeOptIn(env) == EnvGet(env, "DROPBOX_FAX_TEST_MODE") = JStr("1")

\* env.DROPBOX_FAX_TEST_MODE === "0" ? false : true
DropboxTestMode(env) ==
    IF EnvGet(env, "DROPBOX_FAX_TEST_MODE") = JStr("0") THEN FALSE ELSE TRUE

\* DropboxAuthHeader encoding the key alone, without the ":" of the empty password
DropboxAuthHeaderKeyOnly(env) == "Basic " \o btoa(ToStr(EnvGet(env, "DROPBOX_SIGN_API_KEY")))

DropboxAuthHeader(env) == "Basic " \o btoa(ToStr(EnvGet(env, "DROPBOX_SIGN_API_KEY")) \o ":")

\* sender: env.FAX_FROM || undefined  (JSON.stringify leaves an undefined member out)
DropboxSendPayload(params, env) ==
    (IF Configured(env, "FAX_FROM") THEN "sender" :> EnvGet(env, "FAX_FROM") ELSE EmptyMap)
    @@ [recipient |-> JStr(params.to),
        file_urls |-> JArr(<<JStr(params.mediaUrl)>>),
        test_mode |-> JBool(DropboxTestMode(env)),
        title |-> JStr("Fax via Internet Fax Worker")]

DropboxSendRequest(params, ctx) ==
    HttpCall("POST", "https://api.hellosign.com/v3/fax/send",
             [authorization |-> DropboxAuthHeader(ctx.env),
              contentType |-> "application/json"],
             JsonStringify(JObj(DropboxSendPayload(params, ctx.env))))

DropboxSendFaxBegin(p, params, ctx, via) ==
    /\ loc' = [loc EXCEPT ![p] = [via |-> via, ctx |-> ctx, params |-> params]]
    /\ IF DropboxMissingConfig(ctx.env) # ""
       THEN /\ Return(p, [via |-> via, ctx |-> ctx],
                      ConfigError(DropboxMissingConfig(ctx.env)))
            /\ UNCHANGED http
       ELSE /\ http' = [http EXCEPT ![p] = Append(@, DropboxSendRequest(params, ctx))]
            /\ pc' = [pc EXCEPT ![p] = "dropbox_send"]
            /\ UNCHANGED out

\* `await res.text()`, then JSON.parse in a try whose catch leaves the text
TextOrJson(body) == IF ParsesAsJson(body) THEN JsonParse(body) ELSE JText(body)

DropboxSendOutcome(r) ==
    IF r.fault THEN Thrown("TypeError: fetch failed")
    ELSE SendResult(IsOk(r.status), r.status, TextOrJson(r.body), TextOrJson(r.body))

DropboxSendFaxReply(p) ==
    /\ pc[p] = "dropbox_send"
    /\ \E r \in VendorReplies :
          /\ Return(p, loc[p], DropboxSendOutcome(r))
          /\ loc' = [loc EXCEPT ![p] = [reply |-> r] @@ @]
    /\ UNCHANGED <<kv, call, puts, http>>

\* a direct call of DropboxFaxProvider.sendFax(params, ctx)
DropboxSendFax(p) ==
    /\ pc[p] = "idle"
    /\ \E params \in SendParams, ctx \in Ctxs(DropboxEnvs) :
          /\ call' = [call EXCEPT ![p] =
                         [op |-> "sendFax", provider |-> DropboxName,
                          params |-> params, ctx |-> ctx]]
          /\ DropboxSendFaxBegin(p, params, ctx, "direct")
    /\ UNCHANGED <<kv, puts>>

(***************************************************************************)
(* SinchProvider.sendFax                                                   *)
(***************************************************************************)
SinchName == "sinch"
SinchWebhookPath == "/sinch/fax-rx"

SinchMissingConfig(env) ==
    IF ~Configured(env, "SINCH_PROJECT_ID") THEN "SINCH_PROJECT_ID"
    ELSE IF ~Configured(env, "SINCH_ACCESS_KEY") \/ ~Configured(env, "SINCH_SECRET_KEY")
    THEN "SINCH_ACCESS_KEY or SINCH_SECRET_KEY"
    ELSE ""

SinchAuthHeader(env) ==
    "Basic " \o btoa(ToStr(EnvGet(env, "SINCH_ACCESS_KEY")) \o ":"
                      \o ToStr(EnvGet(env, "SINCH_SECRET_KEY")))

\* from: env.FAX_FROM ?? ""
SinchSendPayload(params, env) ==
    [to |-> JStr(params.to),
     from |-> Coalesce(EnvGet(env, "FAX_FROM"), JStr("")),
     contentUrl |-> JStr(params.mediaUrl)]

SinchSendRequest(params, ctx) ==
    HttpCall("POST",
             "https://fax.api.sinch.com/v3/projects/"
                 \o ToStr(EnvGet(ctx.env, "SINCH_PROJECT_ID")) \o "/faxes",
             [authorization |-> SinchAuthHeader(ctx.env),
              contentType |-> "application/json"],
             JsonStringify(JObj(SinchSendPayload(params, ctx.env))))

SinchSendFaxBegin(p, params, ctx, via) ==
    /\ loc' = [loc EXCEPT ![p] = [via |-> via, ctx |-> ctx, params |-> params]]
    /\ IF SinchMissingConfig(ctx.env) # ""
       THEN /\ Return(p, [via |-> via, ctx |-> ctx],
                      ConfigError(SinchMissingConfig(ctx.env)))
            /\ UNCHANGED http
       ELSE /\ http' = [http EXCEPT ![p] = Append(@, SinchSendRequest(params, ctx))]
            /\ pc' = [pc EXCEPT ![p] = "sinch_send"]
            /\ UNCHANGED out

SinchSendOutcome(r) ==
    IF r.fault THEN Thrown("TypeError: fetch failed")
    ELSE SendResult(IsOk(r.status), r.status, TextOrJson(r.body), TextOrJson(r.body))

SinchSendFaxReply(p) ==
    /\ pc[p] = "sinch_send"
    /\ \E r \in VendorReplies :
          /\ Return(p, loc[p], SinchSendOutcome(r))
          /\ loc' = [loc EXCEPT ![p] = [reply |-> r] @@ @]
    /\ UNCHANGED <<kv, call, puts, http>>

\* a direct call of SinchProvider.sendFax(params, ctx)
SinchSendFax(p) ==
    /\ pc[p] = "idle"
    /\ \E params \in SendParams, ctx \in Ctxs(SinchEnvs) :
          /\ call' = [call EXCEPT ![p] =
                         [op |-> "sendFax", provider |-> SinchName,
                          params |-> params, ctx |-> ctx]]
          /\ SinchSendFaxBegin(p, params, ctx, "direct")
    /\ UNCHANGED <<kv, puts>>


(***************************************************************************)
(* Inbound webhook requests: a content-type header ("" when there is none) *)
(* and a body text.                                                        *)
(***************************************************************************)
ContentTypes ==
    {"", "text/plain", "application/json",
     "multipart/form-data; boundary=----fax", "application/x-www-form-urlencoded"}

\* contentType.includes(needle), for the content types above
Includes(ct, needle) ==
    CASE ct = "application/json" -> needle = "application/json"
      [] ct = "multipart/form-data; boundary=----fax" -> needle = "multipart/form-data"
      [] ct = "application/x-www-form-urlencoded" -> needle = "application/x-www-form-urlencoded"
      [] OTHER -> FALSE

MaxFiles == 2

MediaUrl == "https://files.example/fax.pdf"

\* JSON bodies: values that are no object, Telnyx events, Sinch and Dropbox payloads
JsonShapes == {JNull, JArr(<<>>), JStr("ping"), JObj(EmptyMap), JObj("data" :> JNull)}
TelnyxPayloads ==
    {EmptyMap} \cup
    {"payload" :> JObj(a @@ b) :
        a \in Opt("fax_id", {JStr("fax_999")}), b \in Opt("media_url", {JStr(MediaUrl)})}
TelnyxEvents ==
    {JObj("data" :> JObj(e @@ pl)) :
        e \in Opt("event_type", {JStr("fax.received"), JStr("fax.failed")}),
        pl \in TelnyxPayloads}
SinchJsonPayloads ==
    {JObj(a @@ b @@ c) :
        a \in Opt("id", {JStr("fax_id1"), JNum(7)}),
        b \in Opt("fax_id", {JStr("fax_id2")}),
        c \in Opt("data", {JObj("id" :> JStr("fax_id3"))})}
DropboxJsonPayloads ==
    {JObj(a @@ b @@ c @@ d) :
        a \in Opt("fax", {JObj("id" :> JStr("fax_abc")),
                          JObj("file_url" :> JStr(MediaUrl)),
                          JObj([id |-> JStr("fax_abc"), file_url |-> JStr(MediaUrl)])}),
        b \in Opt("event", {JObj("fax_id" :> JStr("fax_evt"))}),
        c \in Opt("id", {JStr("fax_id1")}),
        d \in Opt("file_url", {JStr(MediaUrl)})}
JsonValues == JsonShapes \cup TelnyxEvents \cup SinchJsonPayloads \cup DropboxJsonPayloads

\* multipart forms: text fields and file parts (field name, filename, type, bytes)
FormFields ==
    {a @@ b @@ c @@ d :
        a \in Opt("id", {"fax_form"}), b \in Opt("faxId", {"fax_camel"}),
        c \in Opt("fax_id", {"fax_snake"}), d \in Opt("file_url", {MediaUrl})}
FilePart(key, name) ==
    [key |-> key, name |-> name, type |-> "application/pdf", bytes |-> "bytes of " \o key]
FileParts == {FilePart("file", n) : n \in {"", "fax.pdf"}} \cup {FilePart("file2", "fax.pdf")}
FileLists == UNION {[1..n -> FileParts] : n \in 0..MaxFiles}
FormBodies == {FormBody(f, fs) : f \in FormFields, fs \in FileLists}

UrlEncBodies ==
    {UrlEncBody(a @@ b @@ c) :
        a \in Opt("fax_id", {"fax_snake"}), b \in Opt("id", {"fax_form"}),
        c \in Opt("file_url", {MediaUrl})}

TextBodies == {TextBody("inbound fax notice"), TextBody("")}

WebhookBodies ==
    {JsonBody(v) : v \in JsonValues} \cup FormBodies \cup UrlEncBodies \cup TextBodies
WebhookRequests == {[ct |-> ct, body |-> b] : ct \in ContentTypes, b \in WebhookBodies}

\* What the vendor's file server answers to the media fetch.
MediaReplies ==
    {NetworkFault, Reply(200, TextBody("%PDF-1.4 fax")), Reply(404, TextBody("Not Found"))}

\* kv.put resolves, or rejects on a Blob Store fault
PutSettles == {"stored", "failed"}

(***************************************************************************)
(* The Blob Store.                                                         *)
(***************************************************************************)
PutCall(key, value, metadata) == [key |-> key, value |-> value, metadata |-> metadata]
NoMetadata == EmptyMap

\* KvPut keeping the value a key already holds (first write wins)
KvPutIfAbsent(p, c) ==
    /\ kv' = kv @@ (c.key :> [value |-> c.value, metadata |-> c.metadata])
    /\ puts' = [puts EXCEPT ![p] = Append(@, c)]

\* kv.put(key, value, { metadata }) having resolved for process p
KvPut(p, c) ==
    /\ kv' = (c.key :> [value |-> c.value, metadata |-> c.metadata]) @@ kv
    /\ puts' = [puts EXCEPT ![p] = Append(@, c)]

\* the catch block of every handleWebhook
WebhookError(ctx, error) ==
    JsonResponse(500, JObj([ok |-> JBool(FALSE), requestId |-> JStr(ctx.requestId),
                            error |-> JStr(error)]))

\* a form's string fields as the object JSON.stringify(fields) serialises
FieldsObject(fields) == JObj([k \in DOMAIN fields |-> JStr(fields[k])])

\* fields[name] of a Record<string, string>
Field(fields, name) == IF name \in DOMAIN fields THEN JStr(fields[name]) ELSE JUndefined

(***************************************************************************)
(* TelnyxProvider.handleWebhook                                            *)
(***************************************************************************)
TelnyxEventType(event) ==
    Coalesce(OptGet(OptGet(event, "data"), "event_type"), JStr("unknown"))
TelnyxPayload(event) == OptGet(OptGet(event, "data"), "payload")
\* TelnyxFaxId reading the event's own id (data.id) in place of payload.fax_id
TelnyxFaxIdOfEvent(event, requestId) ==
    Coalesce(OptGet(OptGet(event, "data"), "id"), JStr(requestId))

TelnyxFaxId(event, requestId) ==
    Coalesce(OptGet(TelnyxPayload(event), "fax_id"), JStr(requestId))

TelnyxWebhookOk(ctx) ==
    JsonResponse(200, JObj([ok |-> JBool(TRUE), requestId |-> JStr(ctx.requestId)]))

TelnyxMediaKey(faxId) == "telnyx:fax:" \o ToStr(faxId) \o ".pdf"
TelnyxMetaKey(faxId) == "telnyx:fax:" \o ToStr(faxId) \o ":meta.json"
TelnyxEventKey(faxId, eventType) ==
    "telnyx:fax:" \o ToStr(faxId) \o ":" \o ToStr(eventType) \o ".json"

\* TelnyxMediaHeaders sending no header at all
TelnyxMediaHeadersNone(env) == EmptyMap

\* headers of the media fetch: authorization only when the key is configured
TelnyxMediaHeaders(env) ==
    IF Configured(env, "TELNYX_API_KEY")
    THEN "authorization" :> TelnyxAuthHeader(env) ELSE EmptyMap

\* The put a webhook without media to fetch makes.
TelnyxMetadataPut(event, requestId) ==
    IF TelnyxEventType(event) = JStr("fax.received")
    THEN PutCall(TelnyxMetaKey(TelnyxFaxId(event, requestId)),
                 JsonStringify(TelnyxPayload(event)), NoMetadata)
    ELSE PutCall(TelnyxEventKey(TelnyxFaxId(event, requestId), TelnyxEventType(event)),
                 JsonStringify(TelnyxPayload(event)), NoMetadata)

\* TelnyxFetchesMedia downloading for every event type that carries a media_url
TelnyxFetchesMediaAnyEvent(event) == IsTruthy(OptGet(TelnyxPayload(event), "media_url"))

\* Does the handler download media for this event?
TelnyxFetchesMedia(event) ==
    /\ TelnyxEventType(event) = JStr("fax.received")
    /\ IsTruthy(OptGet(TelnyxPayload(event), "media_url"))

\* handleWebhook up to its first network await: `await req.json()` rejects on
\* a body that is not JSON, and `event.data` throws on null.
TelnyxHandleWebhookBegin(p, req, ctx, via) ==
    LET l == [via |-> via, ctx |-> ctx]
        event == JsonParse(req.body)
    IN  /\ IF ~ParsesAsJson(req.body)
           THEN /\ Return(p, l, WebhookError(ctx, "SyntaxError: Unexpected token"))
                /\ loc' = [loc EXCEPT ![p] = l]
                /\ UNCHANGED http
           ELSE IF IsNullish(event)
           THEN /\ Return(p, l, WebhookError(ctx, "TypeError: Cannot read properties of null"))
                /\ loc' = [loc EXCEPT ![p] = l]
                /\ UNCHANGED http
           ELSE IF TelnyxFetchesMedia(event)
           THEN /\ http' = [http EXCEPT ![p] =
                       Append(@, HttpCall("GET",
                                          ToStr(OptGet(TelnyxPayload(event), "media_url")),
                                          TelnyxMediaHeaders(ctx.env), JUndefined))]
                /\ loc' = [loc EXCEPT ![p] =
                              l @@ [faxId |-> TelnyxFaxId(event, ctx.requestId)]]
                /\ pc' = [pc EXCEPT ![p] = "telnyx_media"]
                /\ UNCHANGED out
           ELSE /\ loc' = [loc EXCEPT ![p] =
                              l @@ [put |-> TelnyxMetadataPut(event, ctx.requestId)]]
                /\ pc' = [pc EXCEPT ![p] = "telnyx_put"]
                /\ UNCHANGED <<out, http>>

\* the media fetch settles: the bytes of whatever was answered are put under <id>.pdf
TelnyxMediaReply(p) ==
    /\ pc[p] = "telnyx_media"
    /\ \E r \in MediaReplies :
          IF r.fault
          THEN /\ Return(p, loc[p], WebhookError(loc[p].ctx, "TypeError: fetch failed"))
               /\ loc' = [loc EXCEPT ![p] = @ @@ [mediaRes |-> r]]
          ELSE /\ loc' = [loc EXCEPT ![p] =
                             @ @@ [mediaRes |-> r,
                                   put |-> PutCall(TelnyxMediaKey(loc[p].faxId),
                                                   JBytes(r.body), NoMetadata)]]
               /\ pc' = [pc EXCEPT ![p] = "telnyx_put"]
               /\ UNCHANGED out
    /\ UNCHANGED <<kv, call, puts, http>>

\* the one kv.put of the handler settles, and the handler answers
TelnyxPutSettles(p) ==
    /\ pc[p] = "telnyx_put"
    /\ \E s \in PutSettles :
          IF s = "stored"
          THEN /\ KvPut(p, loc[p].put)
               /\ Return(p, loc[p], TelnyxWebhookOk(loc[p].ctx))
          ELSE /\ Return(p, loc[p], WebhookError(loc[p].ctx, "Error: KV PUT failed"))
               /\ UNCHANGED <<kv, puts>>
    /\ UNCHANGED <<call, loc, http>>

TelnyxWebhookEnvs == Opt("TELNYX_API_KEY", {"key_123"})

\* a direct call of TelnyxProvider.handleWebhook(req, ctx)
TelnyxHandleWebhook(p) ==
    /\ pc[p] = "idle"
    /\ \E req \in WebhookRequests, ctx \in Ctxs(TelnyxWebhookEnvs) :
          /\ call' = [call EXCEPT ![p] =
                         [op |-> "handleWebhook", provider |-> TelnyxName,
                          req |-> req, ctx |-> ctx]]
          /\ TelnyxHandleWebhookBegin(p, req, ctx, "direct")
    /\ UNCHANGED <<kv, puts>>


(***************************************************************************)
(* SinchProvider.handleWebhook                                             *)
(***************************************************************************)
\* faxId = fields["id"] ?? fields["faxId"] ?? faxId
SinchFormFaxId(fields, requestId) ==
    Coalesce(Field(fields, "id"), Coalesce(Field(fields, "faxId"), JStr(requestId)))

\* faxId = body?.id ?? body?.fax_id ?? body?.data?.id ?? faxId
SinchJsonFaxId(body, requestId) ==
    Coalesce(OptGet(body, "id"),
             Coalesce(OptGet(body, "fax_id"),
                      Coalesce(OptGet(OptGet(body, "data"), "id"), JStr(requestId))))

\* `sinch:fax:${faxId}:${file.name || file.key}`
SinchFileKey(faxId, file) ==
    "sinch:fax:" \o ToStr(faxId) \o ":" \o (IF file.name # "" THEN file.name ELSE file.key)
SinchPayloadKey(faxId) == "sinch:fax:" \o ToStr(faxId) \o ":payload.json"
SinchRawKey(faxId) == "sinch:fax:" \o ToStr(faxId) \o ":raw.txt"

FilePut(key, file) ==
    PutCall(key, JBytes(file.bytes), [filename |-> file.name, contentType |-> file.type])

\* The puts of the multipart branch, in the order the code makes them.
SinchFormPuts(form, requestId) ==
    LET faxId == SinchFormFaxId(form.fields, requestId)
    IN  [i \in 1..Len(form.files) |-> FilePut(SinchFileKey(faxId, form.files[i]), form.files[i])]
        \o <<PutCall(SinchPayloadKey(faxId), JsonStringify(FieldsObject(form.fields)),
                     NoMetadata)>>

SinchWebhookOk(ctx, faxId, fileCount) ==
    JsonResponse(200, JObj([ok |-> JBool(TRUE), requestId |-> JStr(ctx.requestId),
                            faxId |-> faxId, filesStored |-> JNum(fileCount)]))

\* handleWebhook up to its first kv.put: the branch on the content type.
\* loc.pending holds the puts still to make; the first of them is awaited.
SinchHandleWebhookBegin(p, req, ctx, via) ==
    LET l == [via |-> via, ctx |-> ctx] IN
    /\ UNCHANGED http
    /\ IF Includes(req.ct, "multipart/form-data")
       THEN IF req.body.enc # "form"
            THEN /\ Return(p, l, WebhookError(ctx, "TypeError: Failed to parse body as FormData"))
                 /\ loc' = [loc EXCEPT ![p] = l]
            ELSE /\ loc' = [loc EXCEPT ![p] =
                               l @@ [faxId |-> SinchFormFaxId(req.body.fields, ctx.requestId),
                                     fileCount |-> 0,
                                     nFiles |-> Len(req.body.files),
                                     pending |-> SinchFormPuts(req.body, ctx.requestId)]]
                 /\ pc' = [pc EXCEPT ![p] = "sinch_put"]
                 /\ UNCHANGED out
       ELSE IF Includes(req.ct, "application/json")
       THEN IF ~ParsesAsJson(req.body)
            THEN /\ Return(p, l, WebhookError(ctx, "SyntaxError: Unexpected token"))
                 /\ loc' = [loc EXCEPT ![p] = l]
            ELSE LET body == JsonParse(req.body)
                     faxId == SinchJsonFaxId(body, ctx.requestId)
                 IN  /\ loc' = [loc EXCEPT ![p] =
                                   l @@ [faxId |-> faxId, fileCount |-> 0, nFiles |-> 0,
                                         pending |-> <<PutCall(SinchPayloadKey(faxId),
                                                               JsonStringify(body),
                                                               NoMetadata)>>]]
                     /\ pc' = [pc EXCEPT ![p] = "sinch_put"]
                     /\ UNCHANGED out
       ELSE /\ loc' = [loc EXCEPT ![p] =
                          l @@ [faxId |-> JStr(ctx.requestId), fileCount |-> 0, nFiles |-> 0,
                                pending |-> <<PutCall(SinchRawKey(JStr(ctx.requestId)),
                                                      JText(req.body), NoMetadata)>>]]
            /\ pc' = [pc EXCEPT ![p] = "sinch_put"]
            /\ UNCHANGED out

\* a kv.put settles: the next one is made, or the handler answers
SinchPutSettles(p) ==
    /\ pc[p] = "sinch_put"
    /\ \E s \in PutSettles :
          IF s = "stored"
          THEN LET l == [loc[p] EXCEPT
                            !.pending = Tail(@),
                            !.fileCount = IF @ < loc[p].nFiles THEN @ + 1 ELSE @]
               IN  /\ KvPut(p, Head(loc[p].pending))
                   /\ loc' = [loc EXCEPT ![p] = l]
                   /\ IF l.pending = <<>>
                      THEN Return(p, l, SinchWebhookOk(l.ctx, l.faxId, l.fileCount))
                      ELSE UNCHANGED <<pc, out>>
          ELSE /\ Return(p, loc[p], WebhookError(loc[p].ctx, "Error: KV PUT failed"))
               /\ UNCHANGED <<kv, puts, loc>>
    /\ UNCHANGED <<call, http>>

SinchWebhookEnvs == {EmptyMap}

\* a direct call of SinchProvider.handleWebhook(req, ctx)
SinchHandleWebhook(p) ==
    /\ pc[p] = "idle"
    /\ \E req \in WebhookRequests, ctx \in Ctxs(SinchWebhookEnvs) :
          /\ call' = [call EXCEPT ![p] =
                         [op |-> "handleWebhook", provider |-> SinchName,
                          req |-> req, ctx |-> ctx]]
          /\ SinchHandleWebhookBegin(p, req, ctx, "direct")
    /\ UNCHANGED <<kv, puts>>

(***************************************************************************)
(* DropboxFaxProvider.handleWebhook                                        *)
(***************************************************************************)
\* Object.fromEntries(new URLSearchParams(text)): the fields of a URL-encoded
\* text; any other non-empty text decodes to one entry named by the text itself.
UrlDecode(body) ==
    CASE body.enc = "urlenc" -> body.fields
      [] body.enc = "text" /\ body.text = "" -> EmptyMap
      [] OTHER -> "(the body text)" :> ""

\* faxId = payload?.fax?.id ?? payload?.event?.fax_id ?? payload?.id ?? faxId
DropboxJsonFaxId(payload, requestId) ==
    Coalesce(OptGet(OptGet(payload, "fax"), "id"),
             Coalesce(OptGet(OptGet(payload, "event"), "fax_id"),
                      Coalesce(OptGet(payload, "id"), JStr(requestId))))

\* faxId = fields["fax_id"] ?? fields["id"] ?? faxId
DropboxFormFaxId(fields, requestId) ==
    Coalesce(Field(fields, "fax_id"), Coalesce(Field(fields, "id"), JStr(requestId)))

\* faxId = payload["fax_id"] ?? faxId
DropboxUrlEncFaxId(fields, requestId) ==
    Coalesce(Field(fields, "fax_id"), JStr(requestId))

\* const fileUrl = payload?.file_url || payload?.fax?.file_url
DropboxFileUrl(payload) ==
    OrElse(OptGet(payload, "file_url"), OptGet(OptGet(payload, "fax"), "file_url"))

DropboxFileKey(faxId, file) ==
    "dropbox:fax:" \o ToStr(faxId) \o ":" \o (IF file.name # "" THEN file.name ELSE file.key)
DropboxMediaKey(faxId) == "dropbox:fax:" \o ToStr(faxId) \o ".pdf"
\* DropboxMetadataKey prefixed by the provider's name field
DropboxMetadataKeyByName(faxId) == DropboxName \o ":fax:" \o ToStr(faxId) \o ":metadata.json"

DropboxMetadataKey(faxId) == "dropbox:fax:" \o ToStr(faxId) \o ":metadata.json"

DropboxMediaHeaders(env) ==
    IF Configured(env, "DROPBOX_SIGN_API_KEY")
    THEN "authorization" :> DropboxAuthHeader(env) ELSE EmptyMap

DropboxWebhookOk(ctx, faxId, filesStored) ==
    JsonResponse(200, JObj([ok |-> JBool(TRUE), requestId |-> JStr(ctx.requestId),
                            faxId |-> faxId, filesStored |-> JNum(filesStored)]))

\* DropboxAfterFiles answering at once when the payload references no file
DropboxAfterFilesNoTrace(p, l) ==
    IF IsTruthy(DropboxFileUrl(l.payload))
    THEN /\ http' = [http EXCEPT ![p] =
                Append(@, HttpCall("GET", ToStr(DropboxFileUrl(l.payload)),
                                   DropboxMediaHeaders(l.ctx.env), JUndefined))]
         /\ pc' = [pc EXCEPT ![p] = "dropbox_media"]
         /\ UNCHANGED out
    ELSE /\ Return(p, l, DropboxWebhookOk(l.ctx, l.faxId, l.filesStored))
         /\ UNCHANGED http

\* The code after the content-type branches and the file loop: fetch the
\* referenced file if there is one, else put the metadata.
DropboxAfterFiles(p, l) ==
    IF IsTruthy(DropboxFileUrl(l.payload))
    THEN /\ http' = [http EXCEPT ![p] =
                Append(@, HttpCall("GET", ToStr(DropboxFileUrl(l.payload)),
                                   DropboxMediaHeaders(l.ctx.env), JUndefined))]
         /\ pc' = [pc EXCEPT ![p] = "dropbox_media"]
         /\ UNCHANGED out
    ELSE /\ pc' = [pc EXCEPT ![p] = "dropbox_meta_put"]
         /\ UNCHANGED <<http, out>>

\* handleWebhook up to its first network await
DropboxHandleWebhookBegin(p, req, ctx, via) ==
    LET l == [via |-> via, ctx |-> ctx, filesStored |-> 0, files |-> <<>>]
        Fail(error) == /\ Return(p, l, WebhookError(ctx, error))
                       /\ loc' = [loc EXCEPT ![p] = l]
                       /\ UNCHANGED http
        Go(m) == /\ loc' = [loc EXCEPT ![p] = m]
                 /\ IF m.files # <<>>
                    THEN pc' = [pc EXCEPT ![p] = "dropbox_file_put"] /\ UNCHANGED <<http, out>>
                    ELSE DropboxAfterFiles(p, m)
    IN
    /\ IF Includes(req.ct, "application/json")
       THEN IF ~ParsesAsJson(req.body)
            THEN Fail("SyntaxError: Unexpected token")
            ELSE Go(l @@ [payload |-> JsonParse(req.body),
                          faxId |-> DropboxJsonFaxId(JsonParse(req.body), ctx.requestId)])
       ELSE IF Includes(req.ct, "multipart/form-data")
       THEN IF req.body.enc # "form"
            THEN Fail("TypeError: Failed to parse body as FormData")
            ELSE Go([files |-> req.body.files] @@ l @@
                    [payload |-> FieldsObject(req.body.fields),
                     faxId |-> DropboxFormFaxId(req.body.fields, ctx.requestId)])
       ELSE IF Includes(req.ct, "application/x-www-form-urlencoded")
       THEN Go(l @@ [payload |-> FieldsObject(UrlDecode(req.body)),
                     faxId |-> DropboxUrlEncFaxId(UrlDecode(req.body), ctx.requestId)])
       ELSE Go(l @@ [payload |-> JObj("raw" :> JText(req.body)),
                     faxId |-> JStr(ctx.requestId)])

\* the kv.put of a file part settles: the next part, or the code after the loop
DropboxFilePutSettles(p) ==
    /\ pc[p] = "dropbox_file_put"
    /\ \E s \in PutSettles :
          IF s = "stored"
          THEN LET file == Head(loc[p].files)
                   l == [loc[p] EXCEPT !.files = Tail(@), !.filesStored = @ + 1]
               IN  /\ KvPut(p, FilePut(DropboxFileKey(loc[p].faxId, file), file))
                   /\ loc' = [loc EXCEPT ![p] = l]
                   /\ IF l.files # <<>>
                      THEN UNCHANGED <<pc, http, out>>
                      ELSE DropboxAfterFiles(p, l)
          ELSE /\ Return(p, loc[p], WebhookError(loc[p].ctx, "Error: KV PUT failed"))
               /\ UNCHANGED <<kv, puts, loc, http>>
    /\ UNCHANGED call

\* the fetch of the referenced file settles: stored when res.ok, skipped otherwise
DropboxMediaReply(p) ==
    /\ pc[p] = "dropbox_media"
    /\ \E r \in MediaReplies :
          IF r.fault
          THEN /\ Return(p, loc[p], WebhookError(loc[p].ctx, "TypeError: fetch failed"))
               /\ loc' = [loc EXCEPT ![p] = @ @@ [res |-> r]]
          ELSE IF IsOk(r.status)
          THEN /\ loc' = [loc EXCEPT ![p] =
                             [res |-> r,
                              put |-> PutCall(DropboxMediaKey(loc[p].faxId), JBytes(r.body),
                                              [contentType |-> "application/pdf"])] @@ @]
               /\ pc' = [pc EXCEPT ![p] = "dropbox_media_put"]
               /\ UNCHANGED out
          ELSE /\ loc' = [loc EXCEPT ![p] = @ @@ [res |-> r]]
               /\ pc' = [pc EXCEPT ![p] = "dropbox_meta_put"]
               /\ UNCHANGED out
    /\ UNCHANGED <<kv, call, puts, http>>

\* the kv.put of the fetched file settles
DropboxMediaPutSettles(p) ==
    /\ pc[p] = "dropbox_media_put"
    /\ \E s \in PutSettles :
          IF s = "stored"
          THEN /\ KvPut(p, loc[p].put)
               /\ loc' = [loc EXCEPT ![p] = [@ EXCEPT !.filesStored = @ + 1]]
               /\ pc' = [pc EXCEPT ![p] = "dropbox_meta_put"]
               /\ UNCHANGED out
          ELSE /\ Return(p, loc[p], WebhookError(loc[p].ctx, "Error: KV PUT failed"))
               /\ UNCHANGED <<kv, puts, loc>>
    /\ UNCHANGED <<call, http>>

\* the kv.put of metadata.json settles, and the handler answers
DropboxMetadataPutSettles(p) ==
    /\ pc[p] = "dropbox_meta_put"
    /\ \E s \in PutSettles :
          IF s = "stored"
          THEN /\ KvPut(p, PutCall(DropboxMetadataKey(loc[p].faxId),
                                   JsonStringify(loc[p].payload), NoMetadata))
               /\ Return(p, loc[p],
                         DropboxWebhookOk(loc[p].ctx, loc[p].faxId, loc[p].filesStored))
          ELSE /\ Return(p, loc[p], WebhookError(loc[p].ctx, "Error: KV PUT failed"))
               /\ UNCHANGED <<kv, puts>>
    /\ UNCHANGED <<call, loc, http>>

DropboxWebhookEnvs == Opt("DROPBOX_SIGN_API_KEY", {"dbx_key"})

\* a direct call of DropboxFaxProvider.handleWebhook(req, ctx)
DropboxHandleWebhook(p) ==
    /\ pc[p] = "idle"
    /\ \E req \in WebhookRequests, ctx \in Ctxs(DropboxWebhookEnvs) :
          /\ call' = [call EXCEPT ![p] =
                         [op |-> "handleWebhook", provider |-> DropboxName,
                          req |-> req, ctx |-> ctx]]
          /\ DropboxHandleWebhookBegin(p, req, ctx, "direct")
    /\ UNCHANGED <<kv, puts>>


(***************************************************************************)
(* The router: resolveProvider, checkBasicAuth and the fetch handler.      *)
(***************************************************************************)
\* String.prototype.toLowerCase, for the provider names configured below
ToLowerCase(s) ==
    CASE s = "Telnyx" -> "telnyx"
      [] s = "TELNYX" -> "telnyx"
      [] s = "SINCH" -> "sinch"
      [] OTHER -> s

\* the cases of resolveProvider's switch
RegisteredProviders == {TelnyxName}

\* ResolveUnknown falling back to the default provider
ResolveFallback(name) == [ok |-> TRUE, provider |-> TelnyxName]

ResolveUnknown(name) == [ok |-> FALSE, error |-> "Unsupported fax provider: " \o name]

\* resolveProvider comparing the configured name as it is written
resolveProviderCaseSensitive(env) ==
    LET name == ToStr(Coalesce(EnvGet(env, "FAX_PROVIDER"), JStr("telnyx")))
    IN  IF name \in RegisteredProviders
        THEN [ok |-> TRUE, provider |-> name]
        ELSE ResolveUnknown(name)

resolveProvider(env) ==
    LET name == ToLowerCase(ToStr(Coalesce(EnvGet(env, "FAX_PROVIDER"), JStr("telnyx"))))
    IN  IF name \in RegisteredProviders
        THEN [ok |-> TRUE, provider |-> name]
        ELSE ResolveUnknown(name)

WebhookPathOf(provider) ==
    CASE provider = TelnyxName -> TelnyxWebhookPath
      [] provider = DropboxName -> DropboxWebhookPath
      [] provider = SinchName -> SinchWebhookPath

\* provider.sendFax and provider.handleWebhook, dispatched on the resolved provider
ProviderSendFaxBegin(provider, p, params, ctx, via) ==
    CASE provider = TelnyxName -> TelnyxSendFaxBegin(p, params, ctx, via)
      [] provider = DropboxName -> DropboxSendFaxBegin(p, params, ctx, via)
      [] provider = SinchName -> SinchSendFaxBegin(p, params, ctx, via)

ProviderHandleWebhookBegin(provider, p, req, ctx, via) ==
    CASE provider = TelnyxName -> TelnyxHandleWebhookBegin(p, req, ctx, via)
      [] provider = DropboxName -> DropboxHandleWebhookBegin(p, req, ctx, via)
      [] provider = SinchName -> SinchHandleWebhookBegin(p, req, ctx, via)

\* An Authorization header: none, or a scheme and, for Basic, the decoded
\* credentials as credentials.split(":") lists them (invalid base64: atob throws).
NoAuth == [scheme |-> "none"]
BasicAuth(parts) == [scheme |-> "Basic", valid |-> TRUE, parts |-> parts]
BadBase64Auth == [scheme |-> "Basic", valid |-> FALSE, parts |-> <<>>]
BearerAuth == [scheme |-> "Bearer"]

\* s.split(":"), for the passwords configured below
SplitColon(s) == IF s = "pa:ss" THEN <<"pa", "ss">> ELSE <<s>>

\* "Basic " + btoa(user + ":" + pass), as a client builds it
BasicHeaderFor(user, pass) == BasicAuth(SplitColon(user) \o SplitColon(pass))

checkBasicAuth(auth, env) ==
    IF ~Configured(env, "BASIC_AUTH_USER") \/ ~Configured(env, "BASIC_AUTH_PASS")
    THEN TRUE
    ELSE IF auth.scheme # "Basic" THEN FALSE
    ELSE IF ~auth.valid THEN FALSE
    ELSE LET user == IF Len(auth.parts) >= 1 THEN JStr(auth.parts[1]) ELSE JUndefined
             pass == IF Len(auth.parts) >= 2 THEN JStr(auth.parts[2]) ELSE JUndefined
         IN  user = EnvGet(env, "BASIC_AUTH_USER") /\ pass = EnvGet(env, "BASIC_AUTH_PASS")

\* encodeURIComponent / decodeURIComponent, for the media keys used below
EncodeURIComponent(s) == IF s = "my fax.pdf" THEN "my%20fax.pdf" ELSE s
DecodeURIComponent(s) == IF s = "my%20fax.pdf" THEN "my fax.pdf" ELSE s

MediaKeys == {"", "file.pdf", "my fax.pdf"}
\* url.pathname.startsWith("/media/") and url.pathname.slice("/media/".length)
MediaPaths == {"/media/" \o EncodeURIComponent(k) : k \in MediaKeys}
IsMediaPath(path) == path \in MediaPaths
MediaPathRest(path) ==
    CHOOSE r \in {EncodeURIComponent(k) : k \in MediaKeys} : path = "/media/" \o r

\* json(data, status)
Json(data, status) == JsonResponse(status, data)

RouterConfigError(error, requestId) ==
    Json(JObj([ok |-> JBool(FALSE), error |-> JStr(error), requestId |-> JStr(requestId)]), 500)

MissingField(name) ==
    Json(JObj([ok |-> JBool(FALSE), error |-> JStr("missing '" \o name \o "' field")]), 400)

MediaStored(key, mediaUrl, bytes) ==
    JsonResponse(200, JObj([ok |-> JBool(TRUE), key |-> JStr(key),
                            mediaUrl |-> JStr(mediaUrl), bytes |-> JBytes(bytes)]))

\* MediaServed answering application/octet-stream whatever was stored
MediaServedAsOctetStream(value, contentType) ==
    [kind |-> "response", status |-> 200, body |-> value,
     contentType |-> "application/octet-stream"]

\* new Response(value, { headers: { "content-type": ... } })
MediaServed(value, contentType) ==
    [kind |-> "response", status |-> 200, body |-> value, contentType |-> contentType]

\* form.get(name) of a text field, form.get("file") of the file parts
FormGetFile(files, name) ==
    IF \E i \in 1..Len(files) : files[i].key = name
    THEN LET i == CHOOSE j \in 1..Len(files) :
                     files[j].key = name /\ \A k \in 1..(j - 1) : files[k].key # name
         IN  [found |-> TRUE, file |-> files[i]]
    ELSE [found |-> FALSE]

\* POST /fax/send up to its first await: the 400s, the upload of the file, the call
RouterSendBegin(p, req, env, requestId, provider, ctx) ==
    LET l == [via |-> "router", ctx |-> ctx, provider |-> provider] IN
    IF Includes(req.ct, "multipart/form-data")
    THEN IF req.body.enc # "form"
         THEN /\ Return(p, l, Thrown("TypeError: Failed to parse body as FormData"))
              /\ loc' = [loc EXCEPT ![p] = l]
              /\ UNCHANGED http
         ELSE IF ~IsTruthy(Field(req.body.fields, "to"))
         THEN /\ Return(p, l, MissingField("to"))
              /\ loc' = [loc EXCEPT ![p] = l]
              /\ UNCHANGED http
         ELSE IF ~FormGetFile(req.body.files, "file").found
         THEN /\ Return(p, l, MissingField("file"))
              /\ loc' = [loc EXCEPT ![p] = l]
              /\ UNCHANGED http
         ELSE LET file == FormGetFile(req.body.files, "file").file
                  key == "fax-out-" \o requestId \o "-" \o file.name
              IN  /\ loc' = [loc EXCEPT ![p] =
                         l @@ [put |-> PutCall("media:" \o key, JBytes(file.bytes),
                                   [contentType |-> IF file.type # "" THEN file.type
                                                    ELSE "application/pdf"]),
                               params |-> [to |-> req.body.fields["to"],
                                           mediaUrl |-> ctx.baseUrl \o "/media/"
                                                        \o EncodeURIComponent(key)]]]
                  /\ pc' = [pc EXCEPT ![p] = "router_send_put"]
                  /\ UNCHANGED <<out, http>>
    ELSE IF ~ParsesAsJson(req.body)
    THEN /\ Return(p, l, Thrown("SyntaxError: Unexpected token"))
         /\ loc' = [loc EXCEPT ![p] = l]
         /\ UNCHANGED http
    ELSE LET body == JsonParse(req.body)
             to == Coalesce(OptGet(body, "to"), JStr(""))
         IN  IF IsNullish(body)
             THEN /\ Return(p, l, Thrown("TypeError: Cannot read properties of null"))
                  /\ loc' = [loc EXCEPT ![p] = l]
                  /\ UNCHANGED http
             ELSE IF ~IsTruthy(to)
             THEN /\ Return(p, l, MissingField("to"))
                  /\ loc' = [loc EXCEPT ![p] = l]
                  /\ UNCHANGED http
             ELSE IF ~IsTruthy(OptGet(body, "media_key"))
             THEN /\ Return(p, l, MissingField("media_key"))
                  /\ loc' = [loc EXCEPT ![p] = l]
                  /\ UNCHANGED http
             ELSE ProviderSendFaxBegin(provider, p,
                      [to |-> ToStr(to),
                       mediaUrl |-> ctx.baseUrl \o "/media/"
                                    \o EncodeURIComponent(ToStr(OptGet(body, "media_key")))],
                      ctx, "routerSend")

\* fetch(req, env) up to its first await
RouterFetchBegin(p, req, env, requestId) ==
    LET providerResult == resolveProvider(env)
        provider == providerResult.provider
        ctx == Ctx(requestId, req.origin, env)
        l == [via |-> "router", ctx |-> ctx]
        isProtectedEndpoint ==
            \/ IsMediaPath(req.path) /\ req.method = "PUT"
            \/ req.path = "/fax/send" /\ req.method = "POST"
        Answer(o) == /\ Return(p, l, o)
                     /\ loc' = [loc EXCEPT ![p] = l]
                     /\ UNCHANGED http
    IN
    IF ~providerResult.ok
    THEN Answer(RouterConfigError(providerResult.error, requestId))
    ELSE IF isProtectedEndpoint /\ ~checkBasicAuth(req.auth, env)
    THEN Answer(TextResponse(401, "Unauthorized"))
    ELSE IF IsMediaPath(req.path) /\ req.method = "PUT"
    THEN LET key == DecodeURIComponent(MediaPathRest(req.path)) IN
         IF key = ""
         THEN Answer(TextResponse(400, "Missing key"))
         ELSE /\ loc' = [loc EXCEPT ![p] =
                    l @@ [key |-> key,
                          put |-> PutCall("media:" \o key, JBytes(req.body.text),
                                     [contentType |-> IF req.ct # "" THEN req.ct
                                                      ELSE "application/octet-stream"])]]
              /\ pc' = [pc EXCEPT ![p] = "router_media_put"]
              /\ UNCHANGED <<out, http>>
    ELSE IF IsMediaPath(req.path) /\ req.method = "GET"
    THEN /\ loc' = [loc EXCEPT ![p] =
               l @@ [key |-> DecodeURIComponent(MediaPathRest(req.path))]]
         /\ pc' = [pc EXCEPT ![p] = "router_media_get"]
         /\ UNCHANGED <<out, http>>
    ELSE IF req.path = "/fax/send" /\ req.method = "POST"
    THEN RouterSendBegin(p, req, env, requestId, provider, ctx)
    ELSE IF req.path = WebhookPathOf(provider)
    THEN IF req.method # "POST"
         THEN Answer(TextResponse(405, "Method not allowed"))
         ELSE ProviderHandleWebhookBegin(provider, p, [ct |-> req.ct, body |-> req.body],
                                         ctx, "routerWebhook")
    ELSE Answer(TextResponse(404, "Not found"))

\* PUT /media/:key: the kv.put settles
RouterMediaPutSettles(p) ==
    /\ pc[p] = "router_media_put"
    /\ \E s \in PutSettles :
          IF s = "stored"
          THEN /\ KvPut(p, loc[p].put)
               /\ Return(p, loc[p],
                         MediaStored(loc[p].key,
                                     loc[p].ctx.baseUrl \o "/media/"
                                         \o EncodeURIComponent(loc[p].key),
                                     loc[p].put.value.b))
          ELSE /\ Return(p, loc[p], Thrown("Error: KV PUT failed"))
               /\ UNCHANGED <<kv, puts>>
    /\ UNCHANGED <<call, loc, http>>

\* kv.getWithMetadata resolves, or rejects on a Blob Store fault
GetSettles == {"read", "failed"}

\* GET /media/:key: kv.getWithMetadata settles
RouterMediaGetSettles(p) ==
    /\ pc[p] = "router_media_get"
    /\ \E s \in GetSettles :
       LET k == "media:" \o loc[p].key IN
       IF s = "failed"
       THEN Return(p, loc[p], Thrown("Error: KV GET failed"))
       ELSE IF k \in DOMAIN kv
       THEN Return(p, loc[p],
                   MediaServed(kv[k].value,
                               IF "contentType" \in DOMAIN kv[k].metadata
                                  /\ kv[k].metadata["contentType"] # ""
                               THEN kv[k].metadata["contentType"]
                               ELSE "application/octet-stream"))
       ELSE Return(p, loc[p], TextResponse(404, "Not found"))
    /\ UNCHANGED <<kv, call, loc, puts, http>>

\* POST /fax/send, multipart: the kv.put of the uploaded file settles, and
\* provider.sendFax is called
RouterSendPutSettles(p) ==
    /\ pc[p] = "router_send_put"
    /\ \E s \in PutSettles :
          IF s = "stored"
          THEN /\ KvPut(p, loc[p].put)
               /\ ProviderSendFaxBegin(loc[p].provider, p, loc[p].params, loc[p].ctx,
                                       "routerSend")
          ELSE /\ Return(p, loc[p], Thrown("Error: KV PUT failed"))
               /\ UNCHANGED <<kv, puts, loc, http>>
    /\ UNCHANGED call


\* The requests the router is given, by route.
Origins == {"https://worker.example"}
Auths ==
    {NoAuth, BearerAuth, BadBase64Auth, BasicHeaderFor("admin", "secret"),
     BasicHeaderFor("admin", "pa:ss"), BasicHeaderFor("admin", "wrong"),
     BasicHeaderFor("root", "secret")}
HttpRequest(method, path, auth, ct, body) ==
    [method |-> method, path |-> path, origin |-> "https://worker.example",
     auth |-> auth, ct |-> ct, body |-> body]

MediaPutRequests ==
    {HttpRequest("PUT", path, a, ct, TextBody("%PDF-1.4 outbound")) :
        path \in MediaPaths, a \in Auths, ct \in {"", "application/pdf"}}
MediaGetRequests == {HttpRequest("GET", path, NoAuth, "", TextBody("")) : path \in MediaPaths}

SendForms ==
    {FormBody(f, fs) :
        f \in Opt("to", {"", "+15558675309"}),
        fs \in {<<>>, <<FilePart("file", "out.pdf")>>, <<FilePart("file2", "out.pdf")>>}}
SendJsons ==
    {JsonBody(JObj(a @@ b)) :
        a \in Opt("to", {JStr("+15558675309")}), b \in Opt("media_key", {JStr("my fax.pdf")})}
    \cup {JsonBody(JNull)}
SendRequests ==
    {HttpRequest("POST", "/fax/send", a, ct, b) :
        a \in Auths,
        ct \in {"multipart/form-data; boundary=----fax", "application/json"},
        b \in SendForms \cup SendJsons \cup {TextBody("to=+15558675309")}}

RouterWebhookBodies ==
    {JsonBody(JObj("data" :> JObj(
         [event_type |-> JStr("fax.received"),
          payload |-> JObj([fax_id |-> JStr("fax_999"), media_url |-> JStr(MediaUrl)])]))),
     JsonBody(JObj("data" :> JObj(
         [event_type |-> JStr("fax.failed"), payload |-> JObj("fax_id" :> JStr("fax_999"))]))),
     TextBody("inbound fax notice")}
RouterWebhookRequests ==
    {HttpRequest(m, path, NoAuth, "application/json", b) :
        m \in {"POST", "GET"},
        path \in {TelnyxWebhookPath, DropboxWebhookPath, SinchWebhookPath},
        b \in RouterWebhookBodies}

OtherRequests ==
    {HttpRequest("GET", "/", NoAuth, "", TextBody("")),
     HttpRequest("GET", "/fax/send", NoAuth, "", TextBody(""))}

RouterRequests ==
    MediaPutRequests \cup MediaGetRequests \cup SendRequests
        \cup RouterWebhookRequests \cup OtherRequests

RouterEnvs ==
    {a @@ b @@ c :
        a \in Opt("FAX_PROVIDER",
                   {"telnyx", "Telnyx", "TELNYX", "sinch", "SINCH", "dropbox-fax", "efax"}),
        b \in {EmptyMap, "BASIC_AUTH_USER" :> "admin",
               [BASIC_AUTH_USER |-> "admin", BASIC_AUTH_PASS |-> "secret"],
               [BASIC_AUTH_USER |-> "admin", BASIC_AUTH_PASS |-> "pa:ss"],
               [BASIC_AUTH_USER |-> "admin", BASIC_AUTH_PASS |-> "pa"]},
        c \in {"CONNECTION_ID" :> "conn_123" @@ "FAX_FROM" :> "+15551234567",
               [TELNYX_API_KEY |-> "key_123", CONNECTION_ID |-> "conn_123",
                FAX_FROM |-> "+15551234567"]}}

\* the worker's fetch handler is given a request; requestId = crypto.randomUUID()
RouterFetch(p) ==
    /\ pc[p] = "idle"
    /\ \E req \in RouterRequests, env \in RouterEnvs, requestId \in RequestIds :
          /\ call' = [call EXCEPT ![p] =
                         [op |-> "fetch", req |-> req, env |-> env, requestId |-> requestId]]
          /\ RouterFetchBegin(p, req, env, requestId)
    /\ UNCHANGED <<kv, puts>>


(***************************************************************************)
(* The specification.                                                      *)
(***************************************************************************)
Init ==
    /\ kv = EmptyMap
    /\ pc = [p \in Procs |-> "idle"]
    /\ call = [p \in Procs |-> [op |-> "none"]]
    /\ loc = [p \in Procs |-> [via |-> "none"]]
    /\ out = [p \in Procs |-> NoOutcome]
    /\ puts = [p \in Procs |-> <<>>]
    /\ http = [p \in Procs |-> <<>>]

Next ==
    \E p \in Procs :
        \/ TelnyxSendFax(p)
        \/ TelnyxSendFaxReply(p)
        \/ DropboxSendFax(p)
        \/ DropboxSendFaxReply(p)
        \/ SinchSendFax(p)
        \/ SinchSendFaxReply(p)
        \/ TelnyxHandleWebhook(p)
        \/ TelnyxMediaReply(p)
        \/ TelnyxPutSettles(p)
        \/ SinchHandleWebhook(p)
        \/ SinchPutSettles(p)
        \/ DropboxHandleWebhook(p)
        \/ DropboxFilePutSettles(p)
        \/ DropboxMediaReply(p)
        \/ DropboxMediaPutSettles(p)
        \/ DropboxMetadataPutSettles(p)
        \/ RouterFetch(p)
        \/ RouterMediaPutSettles(p)
        \/ RouterMediaGetSettles(p)
        \/ RouterSendPutSettles(p)

Spec == Init /\ [][Next]_vars

(***************************************************************************)
(* The media store over several requests.  The worker serves one request   *)
(* after another against the same Blob Store: the requests of Turns run in *)
(* their order, each to its end.                                           *)
(***************************************************************************)
Turns == {"p1", "p2", "p3"}
TurnOrder(p) == CASE p = "p1" -> 1 [] p = "p2" -> 2 [] OTHER -> 3

StoreEnv == [BASIC_AUTH_USER |-> "admin", BASIC_AUTH_PASS |-> "secret"]
StorePaths == MediaPaths \ {"/media/"}
StoreRequests ==
    {HttpRequest("PUT", path, a, ct, TextBody(b)) :
        path \in StorePaths, a \in {NoAuth, BasicHeaderFor("admin", "secret")},
        ct \in {"", "application/pdf"}, b \in {"%PDF-1.4 first", "%PDF-1.4 second"}}
    \cup {HttpRequest("GET", path, NoAuth, "", TextBody("")) : path \in StorePaths}

InitStore ==
    /\ kv = EmptyMap
    /\ pc = [p \in Turns |-> "idle"]
    /\ call = [p \in Turns |-> [op |-> "none"]]
    /\ loc = [p \in Turns |-> [via |-> "none"]]
    /\ out = [p \in Turns |-> NoOutcome]
    /\ puts = [p \in Turns |-> <<>>]
    /\ http = [p \in Turns |-> <<>>]

\* the fetch handler is given the next request, once the one before has ended
StoreRequest(p) ==
    /\ pc[p] = "idle"
    /\ \A q \in Turns : TurnOrder(q) < TurnOrder(p) => pc[q] = "done"
    /\ \E req \in StoreRequests :
          /\ call' = [call EXCEPT ![p] =
                         [op |-> "fetch", req |-> req, env |-> StoreEnv,
                          requestId |-> "req-" \o p]]
          /\ RouterFetchBegin(p, req, StoreEnv, "req-" \o p)
    /\ UNCHANGED <<kv, puts>>

NextStore ==
    \E p \in Turns :
        \/ StoreRequest(p)
        \/ RouterMediaPutSettles(p)
        \/ RouterMediaGetSettles(p)

SpecStore == InitStore /\ [][NextStore]_vars

(***************************************************************************)
(* Concurrent webhook deliveries.  Two invocations of handleWebhook share  *)
(* the Blob Store and interleave at every await; each has its own          *)
(* requestId.                                                              *)
(***************************************************************************)
Deliveries == {"p1", "p2"}

TelnyxEventBody(eventType, payload) ==
    JsonBody(JObj("data" :> JObj([event_type |-> JStr(eventType),
                                  payload |-> JObj(payload)])))
ConcurrentTelnyx ==
    {[provider |-> TelnyxName, ct |-> "application/json", body |-> b] :
        b \in {TelnyxEventBody("fax.received",
                               [fax_id |-> JStr("fax_999"), media_url |-> JStr(MediaUrl)]),
               TelnyxEventBody("fax.failed", "fax_id" :> JStr("fax_999")),
               TelnyxEventBody("fax.failed",
                               [fax_id |-> JStr("fax_999"), failure_reason |-> JStr("busy")]),
               TelnyxEventBody("fax.failed", "fax_id" :> JStr("fax_1000"))}}
ConcurrentSinch ==
    {[provider |-> SinchName, ct |-> "multipart/form-data; boundary=----fax", body |-> b] :
        b \in {FormBody("id" :> "fax_1", <<FilePart("file", "fax.pdf")>>),
               FormBody("id" :> "fax_1", <<FilePart("file", "2:payload.json")>>),
               FormBody("id" :> "fax_1:2", <<>>)}}
ConcurrentDropbox ==
    {[provider |-> DropboxName, ct |-> "multipart/form-data; boundary=----fax",
      body |-> FormBody([fax_id |-> "fax_abc", file_url |-> MediaUrl],
                        <<FilePart("file", "fax.pdf")>>)]}
    \cup {[provider |-> DropboxName, ct |-> "application/json", body |-> JsonBody(v)] :
            v \in {JObj("fax" :> JObj("id" :> JStr("fax_abc"))),
                   JObj("fax" :> JObj("id" :> JStr("fax_abd")))}}
ConcurrentDeliveries == ConcurrentTelnyx \cup ConcurrentSinch \cup ConcurrentDropbox
ConcurrentEnv == [TELNYX_API_KEY |-> "key_123", DROPBOX_SIGN_API_KEY |-> "dbx_key"]

InitConcurrent ==
    /\ kv = EmptyMap
    /\ pc = [p \in Deliveries |-> "idle"]
    /\ call = [p \in Deliveries |-> [op |-> "none"]]
    /\ loc = [p \in Deliveries |-> [via |-> "none"]]
    /\ out = [p \in Deliveries |-> NoOutcome]
    /\ puts = [p \in Deliveries |-> <<>>]
    /\ http = [p \in Deliveries |-> <<>>]

\* a vendor delivers a webhook: provider.handleWebhook(req, ctx) is called
Deliver(p) ==
    /\ pc[p] = "idle"
    /\ \E d \in ConcurrentDeliveries :
          LET req == [ct |-> d.ct, body |-> d.body]
              ctx == Ctx("req-" \o p, "https://worker.example", ConcurrentEnv)
          IN  /\ call' = [call EXCEPT ![p] =
                             [op |-> "handleWebhook", provider |-> d.provider,
                              req |-> req, ctx |-> ctx]]
              /\ ProviderHandleWebhookBegin(d.provider, p, req, ctx, "direct")
    /\ UNCHANGED <<kv, puts>>

NextConcurrent ==
    \E p \in Deliveries :
        \/ Deliver(p)
        \/ TelnyxMediaReply(p)
        \/ TelnyxPutSettles(p)
        \/ SinchPutSettles(p)
        \/ DropboxFilePutSettles(p)
        \/ DropboxMediaReply(p)
        \/ DropboxMediaPutSettles(p)
        \/ DropboxMetadataPutSettles(p)

SpecConcurrent == InitConcurrent /\ [][NextConcurrent]_vars

(***************************************************************************)
(* Properties.                                                             *)
(***************************************************************************)
Done(p) == pc[p] = "done"
DirectSend(p) == call[p].op = "sendFax"
DirectWebhook(p) == call[p].op = "handleWebhook"

\* The settings each vendor's sendFax requires.
RequiredConfig(provider) ==
    CASE provider = "telnyx" -> {"TELNYX_API_KEY", "CONNECTION_ID", "FAX_FROM"}
      [] provider = "dropbox-fax" -> {"DROPBOX_SIGN_API_KEY"}
      [] provider = "sinch" -> {"SINCH_PROJECT_ID", "SINCH_ACCESS_KEY", "SINCH_SECRET_KEY"}

SomeConfigAbsent(p) ==
    \E f \in RequiredConfig(call[p].provider) : f \notin DOMAIN call[p].ctx.env

\* The errors of the faults a webhook handler cannot recover from: a Blob
\* Store write that fails, a media fetch that fails.
FaultErrors == {JStr("Error: KV PUT failed"), JStr("TypeError: fetch failed")}
FailedOnFault(p) ==
    /\ out[p].kind = "response"
    /\ out[p].status = 500
    /\ OptGet(out[p].body, "error") \in FaultErrors

\* C1: sendFax with a required credential or setting absent from ctx.env
\* returns ok=false, status=500 and issues no outbound HTTP call, for each of
\* the three providers.
C1_MissingConfigFailsFast ==
    \A p \in Procs :
        (DirectSend(p) /\ SomeConfigAbsent(p))
            => /\ Done(p)
               /\ out[p].kind = "result"
               /\ out[p].ok = FALSE
               /\ out[p].status = 500
               /\ http[p] = <<>>

C1_Witness ==
    \E p \in Procs :
        /\ DirectSend(p) /\ Done(p)
        /\ call[p].provider = "sinch"
        /\ DOMAIN call[p].ctx.env = {"SINCH_PROJECT_ID", "SINCH_ACCESS_KEY", "FAX_FROM"}
        /\ out[p].kind = "result" /\ out[p].status = 500 /\ http[p] = <<>>

\* The vendor's answer to the send call of a finished sendFax, if it got one.
GotVendorResponse(p) ==
    /\ DirectSend(p) /\ Done(p)
    /\ "reply" \in DOMAIN loc[p]
    /\ ~loc[p].reply.fault

\* C2: with all credentials configured, every vendor HTTP response (2xx or
\* not) comes back from sendFax as a result whose status is the vendor's
\* status and whose ok is true exactly for a 2xx status; it is never raised
\* as an exception.
C2_VendorResponsePropagated ==
    \A p \in Procs :
        GotVendorResponse(p)
            => /\ out[p].kind = "result"
               /\ out[p].status = loc[p].reply.status
               /\ out[p].ok = (loc[p].reply.status \in 200..299)

\* C3: when the vendor's response body is not valid JSON, sendFax does not
\* throw: fax and raw carry the body as text, ok and status mirror the response.
C3_NonJsonBodyPassedAsText ==
    \A p \in Procs :
        (GotVendorResponse(p) /\ loc[p].reply.body.enc # "json")
            => /\ out[p].kind = "result"
               /\ out[p].fax = JText(loc[p].reply.body)
               /\ out[p].raw = JText(loc[p].reply.body)
               /\ out[p].status = loc[p].reply.status
               /\ out[p].ok = (loc[p].reply.status \in 200..299)

\* C4: no exception crosses the Provider boundary: every sendFax and every
\* handleWebhook ends by returning its result or Response, whatever fails.
C4_NoExceptionCrossesProvider ==
    \A p \in Procs :
        (DirectSend(p) \/ DirectWebhook(p)) => out[p].kind # "throw"

\* C5: handleWebhook given a request whose content type is none of the
\* recognised ones (text/plain, or no content-type header) answers 200 and
\* has stored a record; it answers 500 only on a fault it cannot recover from.
C5_UnrecognisedContentTypeStored ==
    \A p \in Procs :
        (DirectWebhook(p) /\ Done(p) /\ call[p].req.ct \in {"", "text/plain"})
            => \/ /\ out[p].kind = "response"
                  /\ out[p].status = 200
                  /\ puts[p] # <<>>
               \/ FailedOnFault(p)

\* The text field that identifies the fax in a vendor's multipart form.
FormIdFields(provider) ==
    CASE provider = "telnyx" -> {"id", "fax_id", "faxId"}
      [] provider = "dropbox-fax" -> {"fax_id", "id"}
      [] provider = "sinch" -> {"id", "faxId"}

KeyPrefix(provider) ==
    CASE provider = "telnyx" -> "telnyx:fax:"
      [] provider = "dropbox-fax" -> "dropbox:fax:"
      [] provider = "sinch" -> "sinch:fax:"

\* A multipart webhook of one file part with a filename and one identifying field.
OneFileForm(p) ==
    /\ DirectWebhook(p)
    /\ call[p].req.ct = "multipart/form-data; boundary=----fax"
    /\ call[p].req.body.enc = "form"
    /\ Len(call[p].req.body.files) = 1
    /\ call[p].req.body.files[1].name # ""
    /\ Cardinality(DOMAIN call[p].req.body.fields) = 1
    /\ DOMAIN call[p].req.body.fields \subseteq FormIdFields(call[p].provider)

\* C6: handleWebhook given a multipart body of one file part (with a
\* filename) and an identifying text field makes exactly two Blob Store
\* writes, <vendor>:fax:<id>:<filename> with the file's bytes and one
\* metadata/payload entry <vendor>:fax:<id>:<suffix>, and answers 200.
C6_OneFileFormTwoPuts ==
    \A p \in Procs :
        (OneFileForm(p) /\ Done(p))
            => \/ LET form == call[p].req.body
                      id == form.fields[CHOOSE f \in DOMAIN form.fields : TRUE]
                  IN  /\ out[p].kind = "response"
                      /\ out[p].status = 200
                      /\ Len(puts[p]) = 2
                      /\ puts[p][1].key
                            = KeyPrefix(call[p].provider) \o id \o ":" \o form.files[1].name
                      /\ puts[p][1].value = JBytes(form.files[1].bytes)
                      /\ puts[p][2].key
                            \in {KeyPrefix(call[p].provider) \o id \o ":" \o x :
                                    x \in {"payload.json", "metadata.json", "meta.json"}}
               \/ FailedOnFault(p)

\* The webhook a process is handling, called directly or through the router.
InWebhook(p) == DirectWebhook(p) \/ loc[p].via = "routerWebhook"
WebhookProvider(p) ==
    IF DirectWebhook(p) THEN call[p].provider ELSE resolveProvider(call[p].env).provider
WebhookRequestId(p) ==
    IF DirectWebhook(p) THEN call[p].ctx.requestId ELSE call[p].requestId

\* C7: a handleWebhook that answers 200 has completed at least one Blob Store
\* put before answering, and what it put is in the store.
C7_OkWebhookHasStored ==
    \A p \in Procs :
        (InWebhook(p) /\ Done(p) /\ out[p].kind = "response" /\ out[p].status = 200)
            => /\ Len(puts[p]) >= 1
               /\ \A i \in 1..Len(puts[p]) : puts[p][i].key \in DOMAIN kv

C7_Witness ==
    \E p \in Procs :
        /\ DirectWebhook(p) /\ Done(p)
        /\ call[p].provider = "dropbox-fax"
        /\ call[p].req.ct = "text/plain"
        /\ out[p].kind = "response" /\ out[p].status = 200
        /\ Len(puts[p]) = 1

\* C8: handleWebhook given a valid JSON body of any shape answers 200 with
\* ok:true and the requestId; it answers 500 (ok:false, requestId, error) only
\* on a fault it cannot recover from, never for the shape of the payload.
C8_AnyJsonShapeAccepted ==
    \A p \in Procs :
        (DirectWebhook(p) /\ Done(p)
            /\ call[p].req.ct = "application/json" /\ call[p].req.body.enc = "json")
            => /\ out[p].kind = "response"
               /\ OptGet(out[p].body, "requestId") = JStr(call[p].ctx.requestId)
               /\ \/ out[p].status = 200 /\ OptGet(out[p].body, "ok") = JBool(TRUE)
                  \/ FailedOnFault(p) /\ OptGet(out[p].body, "ok") = JBool(FALSE)

\* The fax/job identifiers the payload of a webhook carries, by provider and
\* by the encoding the provider reads the body in.
NotNullish(vs) == {v \in vs : ~IsNullish(v)}
CarriedIds(provider, req) ==
    LET b == req.body
        asJson == b.enc = "json" /\ (provider = "telnyx" \/ req.ct = "application/json")
        asForm == /\ b.enc = "form" /\ provider # "telnyx"
                  /\ req.ct = "multipart/form-data; boundary=----fax"
        asUrlEnc == /\ b.enc = "urlenc" /\ provider = "dropbox-fax"
                    /\ req.ct = "application/x-www-form-urlencoded"
    IN  NotNullish(
          CASE provider = "telnyx" /\ asJson ->
                 {OptGet(OptGet(OptGet(b.val, "data"), "payload"), "fax_id")}
            [] provider = "sinch" /\ asJson ->
                 {OptGet(b.val, "id"), OptGet(b.val, "fax_id"),
                  OptGet(OptGet(b.val, "data"), "id")}
            [] provider = "sinch" /\ asForm ->
                 {Field(b.fields, "id"), Field(b.fields, "faxId")}
            [] provider = "dropbox-fax" /\ asJson ->
                 {OptGet(OptGet(b.val, "fax"), "id"), OptGet(OptGet(b.val, "event"), "fax_id"),
                  OptGet(b.val, "id")}
            [] provider = "dropbox-fax" /\ asForm ->
                 {Field(b.fields, "fax_id"), Field(b.fields, "id")}
            [] provider = "dropbox-fax" /\ asUrlEnc -> {Field(b.fields, "fax_id")}
            [] OTHER -> {})

\* The keys a provider writes for fax id `id`: <prefix><id>.pdf and <prefix><id>:<suffix>
KeySuffixes(req) ==
    {"meta.json", "payload.json", "raw.txt", "metadata.json",
     "unknown.json", "fax.received.json", "fax.failed.json"}
    \cup (IF req.body.enc = "form"
          THEN {req.body.files[i].name : i \in 1..Len(req.body.files)}
               \cup {req.body.files[i].key : i \in 1..Len(req.body.files)}
          ELSE {})
KeysOfFax(provider, id, req) ==
    {KeyPrefix(provider) \o ToStr(id) \o ".pdf"}
    \cup {KeyPrefix(provider) \o ToStr(id) \o ":" \o x : x \in KeySuffixes(req)}

\* The fax ids the claim allows in the keys of a webhook.
AllowedFaxIds(p) ==
    LET req == [ct |-> call[p].req.ct, body |-> call[p].req.body]
        carried == CarriedIds(WebhookProvider(p), req)
    IN  IF carried = {} THEN {JStr(WebhookRequestId(p))} ELSE carried

\* C9: the fax id in every Blob Store key a webhook writes is the request's
\* correlation id when the payload carries no vendor fax/job identifier, and
\* a vendor identifier of the payload when it carries one.
C9_FaxIdDefaultsToRequestId ==
    \A p \in Procs :
        InWebhook(p)
            => \A i \in 1..Len(puts[p]) :
                   \E id \in AllowedFaxIds(p) :
                       puts[p][i].key \in KeysOfFax(WebhookProvider(p), id, call[p].req)

C9_Witness ==
    \E p \in Procs :
        /\ DirectWebhook(p) /\ Done(p)
        /\ call[p].provider = "telnyx"
        /\ CarriedIds("telnyx", call[p].req) = {}
        /\ Len(puts[p]) = 1
        /\ puts[p][1].key = "telnyx:fax:req-1:fax.failed.json"

\* FAX_PROVIDER as configured, lowercased, "telnyx" when it is not set
ConfiguredProviderName(env) ==
    ToLowerCase(IF "FAX_PROVIDER" \in DOMAIN env THEN env["FAX_PROVIDER"] ELSE "telnyx")

\* C10: when the configured provider name is not a registered one, every
\* request is answered 500 with JSON { ok: false, error, requestId }, before
\* any Provider method is entered and before any Blob Store operation; there
\* is no fallback to another provider.
C10_UnregisteredProviderFailsClosed ==
    \A p \in Procs :
        (call[p].op = "fetch"
            /\ ConfiguredProviderName(call[p].env) \notin RegisteredProviders)
            => /\ Done(p)
               /\ out[p].kind = "response"
               /\ out[p].status = 500
               /\ OptGet(out[p].body, "ok") = JBool(FALSE)
               /\ OptGet(out[p].body, "requestId") = JStr(call[p].requestId)
               /\ OptGet(out[p].body, "error")
                     = JStr("Unsupported fax provider: "
                            \o ConfiguredProviderName(call[p].env))
               /\ loc[p].via = "router"
               /\ puts[p] = <<>>
               /\ http[p] = <<>>
               /\ kv = EmptyMap

C10_Witness ==
    \E p \in Procs :
        /\ call[p].op = "fetch" /\ Done(p)
        /\ ConfiguredProviderName(call[p].env) = "efax"
        /\ call[p].req.path = "/fax/send" /\ call[p].req.method = "POST"
        /\ out[p].kind = "response" /\ out[p].status = 500

\* The request and configuration of a call of the worker's fetch handler.
RouterCall(p) == call[p].op = "fetch"
SelectedProvider(p) == call[p].env["FAX_PROVIDER"]
\* The router answered on its own with the configuration failure.
AnsweredUnsupported(p) ==
    /\ loc[p].via = "router"
    /\ out[p].kind = "response"
    /\ out[p].status = 500

\* C11: resolveProvider matches the configured name case-insensitively: a
\* registered name in any letter case resolves to the provider of that
\* (lowercased) name, and with no name configured it resolves to Telnyx.
C11_ResolvesCaseInsensitively ==
    \A p \in Procs :
        RouterCall(p)
            => LET env == call[p].env
                   r == resolveProvider(env)
               IN  /\ "FAX_PROVIDER" \notin DOMAIN env
                          => r = [ok |-> TRUE, provider |-> "telnyx"]
                   /\ ("FAX_PROVIDER" \in DOMAIN env
                          /\ env["FAX_PROVIDER"] \in {"telnyx", "Telnyx", "TELNYX"})
                          => r = [ok |-> TRUE, provider |-> "telnyx"]
                   /\ ("FAX_PROVIDER" \notin DOMAIN env
                          \/ env["FAX_PROVIDER"] \in {"telnyx", "Telnyx", "TELNYX"})
                          => /\ ~AnsweredUnsupported(p)
                             /\ (Done(p) /\ call[p].req.method = "POST"
                                    /\ call[p].req.path = "/telnyx/fax-rx")
                                    => loc[p].via = "routerWebhook"

C11_Witness ==
    \E p \in Procs :
        /\ RouterCall(p) /\ Done(p)
        /\ "FAX_PROVIDER" \in DOMAIN call[p].env
        /\ SelectedProvider(p) = "TELNYX"
        /\ call[p].req.method = "POST"
        /\ call[p].req.path = "/telnyx/fax-rx"
        /\ loc[p].via = "routerWebhook"
        /\ out[p].kind = "response" /\ out[p].status = 200

\* C12: Telnyx, Dropbox Fax and Sinch are all built in and selectable: with
\* FAX_PROVIDER set to telnyx, dropbox-fax or sinch the worker resolves to
\* that provider and hands a POST to the provider's webhook path to it,
\* rather than answering with an unsupported-provider error.
C12_ThreeProvidersSelectable ==
    \A p \in Procs :
        (RouterCall(p) /\ "FAX_PROVIDER" \in DOMAIN call[p].env
            /\ SelectedProvider(p) \in {"telnyx", "dropbox-fax", "sinch"})
            => /\ resolveProvider(call[p].env) = [ok |-> TRUE, provider |-> SelectedProvider(p)]
               /\ ~AnsweredUnsupported(p)
               /\ (Done(p) /\ call[p].req.method = "POST"
                      /\ call[p].req.path = WebhookPathOf(SelectedProvider(p)))
                      => loc[p].via = "routerWebhook"

\* A sendFax in progress or finished, called directly or by the router, with
\* the provider that runs it and the env it was given.
InSendFax(p) == DirectSend(p) \/ (RouterCall(p) /\ loc[p].via = "routerSend")
SendProvider(p) ==
    IF DirectSend(p) THEN call[p].provider ELSE resolveProvider(call[p].env).provider
SendEnv(p) == IF DirectSend(p) THEN call[p].ctx.env ELSE call[p].env

\* The authorization value each vendor's scheme computes from the credentials.
SchemeAuthorization(provider, env) ==
    CASE provider = "telnyx" -> "Bearer " \o env["TELNYX_API_KEY"]
      [] provider = "dropbox-fax" -> "Basic " \o btoa(env["DROPBOX_SIGN_API_KEY"] \o ":")
      [] provider = "sinch" ->
             "Basic " \o btoa(env["SINCH_ACCESS_KEY"] \o ":" \o env["SINCH_SECRET_KEY"])

\* C13: the authorization header of every outbound send call is exactly
\* Telnyx 'Bearer <TELNYX_API_KEY>', Dropbox Fax 'Basic ' + base64('<key>:'),
\* Sinch 'Basic ' + base64('<access key>:<secret key>').
C13_SendAuthorizationHeader ==
    \A p \in Procs :
        InSendFax(p)
            => \A i \in 1..Len(http[p]) :
                   /\ http[p][i].method = "POST"
                   /\ http[p][i].headers.authorization
                          = SchemeAuthorization(SendProvider(p), SendEnv(p))

C13_Witness ==
    \E p \in Procs :
        /\ DirectSend(p) /\ Done(p)
        /\ call[p].provider = "dropbox-fax"
        /\ Len(http[p]) = 1
        /\ http[p][1].headers.authorization = "Basic b64[dbx_key:]"

\* The env a webhook handler was given, and the setting holding its vendor's key.
WebhookEnv(p) == IF DirectWebhook(p) THEN call[p].ctx.env ELSE call[p].env
VendorKeyName(provider) ==
    CASE provider = "telnyx" -> "TELNYX_API_KEY"
      [] provider = "dropbox-fax" -> "DROPBOX_SIGN_API_KEY"
      [] provider = "sinch" -> "SINCH_ACCESS_KEY"
VendorKeySet(p) ==
    /\ VendorKeyName(WebhookProvider(p)) \in DOMAIN WebhookEnv(p)
    /\ WebhookEnv(p)[VendorKeyName(WebhookProvider(p))] # ""

SendParamsOf(p) == IF DirectSend(p) THEN call[p].params ELSE loc[p].params
SendCtxOf(p) == IF DirectSend(p) THEN call[p].ctx ELSE loc[p].ctx

\* C15: the body of Telnyx's outbound send request has to = params.to,
\* from = env.FAX_FROM, media_url = params.mediaUrl, connection_id =
\* env.CONNECTION_ID and webhook_url = ctx.baseUrl followed by the provider's
\* webhookPath, for every params and ctx with all credentials configured.
C15_TelnyxSendBody ==
    \A p \in Procs :
        (InSendFax(p) /\ SendProvider(p) = "telnyx")
            => \A i \in 1..Len(http[p]) :
                   LET body == http[p][i].body
                       sent == body.body.val
                       env == SendCtxOf(p).env
                   IN  /\ body.t = "text" /\ body.body.enc = "json"
                       /\ http[p][i].url = "https://api.telnyx.com/v2/faxes"
                       /\ OptGet(sent, "to") = JStr(SendParamsOf(p).to)
                       /\ OptGet(sent, "from") = JStr(env["FAX_FROM"])
                       /\ OptGet(sent, "media_url") = JStr(SendParamsOf(p).mediaUrl)
                       /\ OptGet(sent, "connection_id") = JStr(env["CONNECTION_ID"])
                       /\ OptGet(sent, "webhook_url")
                              = JStr(SendCtxOf(p).baseUrl \o "/telnyx/fax-rx")

C15_Witness ==
    \E p \in Procs :
        /\ DirectSend(p) /\ Done(p)
        /\ call[p].provider = "telnyx"
        /\ Len(http[p]) = 1
        /\ OptGet(http[p][1].body.body.val, "webhook_url")
              = JStr("https://worker.example/telnyx/fax-rx")
        /\ OptGet(http[p][1].body.body.val, "to") = JStr("+15558675309")

\* A Telnyx webhook whose body parsed to an event, and what the event says.
TelnyxWebhookParsed(p) ==
    /\ InWebhook(p) /\ WebhookProvider(p) = "telnyx"
    /\ call[p].req.body.enc = "json"
    /\ call[p].req.body.val # JNull
EventOf(p) == call[p].req.body.val
EventTypeOf(p) ==
    LET t == OptGet(OptGet(EventOf(p), "data"), "event_type")
    IN  IF IsNullish(t) THEN "unknown" ELSE ToStr(t)
EventPayloadOf(p) == OptGet(OptGet(EventOf(p), "data"), "payload")
EventFaxIdOf(p) ==
    LET id == OptGet(EventPayloadOf(p), "fax_id")
    IN  IF IsNullish(id) THEN WebhookRequestId(p) ELSE ToStr(id)
EventHasMedia(p) ==
    EventTypeOf(p) = "fax.received" /\ IsTruthy(OptGet(EventPayloadOf(p), "media_url"))
Answered200(p) == Done(p) /\ out[p].kind = "response" /\ out[p].status = 200

\* C16: a Telnyx handleWebhook fetches media_url and stores the fetched bytes
\* under telnyx:fax:<id>.pdf when the event is fax.received with a media_url;
\* otherwise it attempts no fetch and stores one metadata record, under
\* telnyx:fax:<id>:meta.json for fax.received and telnyx:fax:<id>:<eventType>.json
\* for any other event.  A successful invocation makes exactly one put.
C16_TelnyxWebhookBranches ==
    \A p \in Procs :
        TelnyxWebhookParsed(p)
            => /\ Len(puts[p]) <= 1
               /\ Answered200(p) => Len(puts[p]) = 1
               /\ IF EventHasMedia(p)
                  THEN /\ Len(http[p]) = 1
                       /\ http[p][1].method = "GET"
                       /\ http[p][1].url = ToStr(OptGet(EventPayloadOf(p), "media_url"))
                       /\ Answered200(p)
                             => /\ puts[p][1].key = "telnyx:fax:" \o EventFaxIdOf(p) \o ".pdf"
                                /\ puts[p][1].value = JBytes(loc[p].mediaRes.body)
                  ELSE /\ http[p] = <<>>
                       /\ Answered200(p)
                             => puts[p][1].key =
                                    "telnyx:fax:" \o EventFaxIdOf(p) \o ":"
                                        \o (IF EventTypeOf(p) = "fax.received"
                                            THEN "meta" ELSE EventTypeOf(p))
                                        \o ".json"

C16_Witness ==
    \E p \in Procs :
        /\ TelnyxWebhookParsed(p) /\ DirectWebhook(p)
        /\ EventHasMedia(p)
        /\ Answered200(p)
        /\ Len(http[p]) = 1
        /\ puts[p][1].key = "telnyx:fax:fax_999.pdf"
        /\ puts[p][1].value = JBytes(TextBody("%PDF-1.4 fax"))

\* The outcome of the media fetch a webhook handler made, once it settled.
MediaFetchSettled(p) ==
    InWebhook(p) /\ ("mediaRes" \in DOMAIN loc[p] \/ "res" \in DOMAIN loc[p])
MediaReplyOf(p) == IF "mediaRes" \in DOMAIN loc[p] THEN loc[p].mediaRes ELSE loc[p].res
MediaFetchFailed(p) ==
    /\ MediaFetchSettled(p)
    /\ (MediaReplyOf(p).fault \/ MediaReplyOf(p).status \notin 200..299)

\* The keys of the payload/metadata record of the fax a webhook is about.
MetadataKeys(p) ==
    {KeyPrefix(WebhookProvider(p)) \o ToStr(id) \o ":" \o x :
        id \in AllowedFaxIds(p), x \in {"meta.json", "metadata.json", "payload.json"}}
StoredMetadata(p) == \E i \in 1..Len(puts[p]) : puts[p][i].key \in MetadataKeys(p)
FailedOnPut(p) ==
    /\ out[p].kind = "response" /\ out[p].status = 500
    /\ OptGet(out[p].body, "error") = JStr("Error: KV PUT failed")

\* C17: when the fetch of referenced media fails (network fault or non-2xx
\* response) the failure is skipped: the webhook is still answered 200 and
\* the payload/metadata record is still stored; the failed fetch causes no 500.
C17_MediaFetchFailureSkipped ==
    \A p \in Procs :
        (MediaFetchFailed(p) /\ Done(p))
            => \/ Answered200(p) /\ StoredMetadata(p)
               \/ FailedOnPut(p)

\* The keys under which a provider records the payload (or raw text) of the
\* fax a webhook is about.
PayloadRecordKeys(p) ==
    {KeyPrefix(WebhookProvider(p)) \o ToStr(id) \o ":" \o x :
        id \in AllowedFaxIds(p),
        x \in {"meta.json", "metadata.json", "payload.json", "raw.txt",
               "unknown.json", "fax.received.json", "fax.failed.json"}}
StoredPayloadRecord(p) ==
    \E i \in 1..Len(puts[p]) :
        puts[p][i].key \in PayloadRecordKeys(p) /\ puts[p][i].key \in DOMAIN kv

\* The file parts of the multipart body a provider parsed.
AttachmentsOf(p) ==
    IF call[p].req.body.enc = "form" /\ WebhookProvider(p) # "telnyx"
       /\ call[p].req.ct = "multipart/form-data; boundary=----fax"
    THEN call[p].req.body.files ELSE <<>>
StoredAttachments(p) ==
    \A j \in 1..Len(AttachmentsOf(p)) :
        LET file == AttachmentsOf(p)[j] IN
        \E i \in 1..Len(puts[p]), id \in AllowedFaxIds(p) :
            /\ puts[p][i].key = KeyPrefix(WebhookProvider(p)) \o ToStr(id) \o ":"
                                   \o (IF file.name # "" THEN file.name ELSE file.key)
            /\ puts[p][i].value = JBytes(file.bytes)

\* C18: every webhook invocation that parsed its body has persisted the
\* payload (or the raw text) under the metadata key of its provider and fax
\* id, on every branch, the media branch included, and every binary
\* attachment under <provider>:fax:<id>:<filename or field name>.
C18_PayloadAlwaysPersisted ==
    \A p \in Procs :
        (InWebhook(p) /\ Answered200(p))
            => StoredPayloadRecord(p) /\ StoredAttachments(p)

\* The keys for fax `id` under the prefix '<name>:fax:'.
KeysNamed(name, id, req) ==
    {name \o ":fax:" \o ToStr(id) \o ".pdf"}
    \cup {name \o ":fax:" \o ToStr(id) \o ":" \o x : x \in KeySuffixes(req)}

\* C19: every Blob Store key a provider's handleWebhook writes begins with
\* '<name>:fax:', <name> being the provider's own name field.
C19_KeysPrefixedByProviderName ==
    \A p \in Procs :
        InWebhook(p)
            => \A i \in 1..Len(puts[p]) :
                   \E id \in AllowedFaxIds(p) :
                       puts[p][i].key \in KeysNamed(WebhookProvider(p), id, call[p].req)
\* The storage prefix each provider writes under; Dropbox Fax's is not its name.
StoragePrefix(provider) ==
    CASE provider = "telnyx" -> "telnyx"
      [] provider = "sinch" -> "sinch"
      [] provider = "dropbox-fax" -> "dropbox"

\* Every fax id a webhook's keys can be built from.
AnyFaxIds(p) ==
    CarriedIds(WebhookProvider(p), [ct |-> call[p].req.ct, body |-> call[p].req.body])
        \cup {JStr(WebhookRequestId(p))}

\* C19 (amended): every Blob Store key a provider's handleWebhook writes
\* begins with '<prefix>:fax:', where <prefix> is telnyx for telnyx, sinch for
\* sinch and dropbox for the provider named dropbox-fax.
C19_KeysPrefixedByStoragePrefix ==
    \A p \in Procs :
        InWebhook(p)
            => \A i \in 1..Len(puts[p]) :
                   \E id \in AnyFaxIds(p) :
                       puts[p][i].key
                           \in KeysNamed(StoragePrefix(WebhookProvider(p)), id, call[p].req)

C19_Witness ==
    \E p \in Procs :
        /\ DirectWebhook(p) /\ Answered200(p)
        /\ call[p].provider = "dropbox-fax"
        /\ Len(puts[p]) = 2
        /\ puts[p][1].key = "dropbox:fax:fax_abc.pdf"
        /\ puts[p][2].key = "dropbox:fax:fax_abc:metadata.json"
\* C20: a POST to the webhookPath of any registered provider is delivered to
\* that provider's handleWebhook and answered with JSON { ok, requestId, ... }
\* and status 200 or 500, whichever provider is selected for sending, ahead
\* of every other route.
C20_WebhookRoutePerRegisteredVendor ==
    \A p \in Procs :
        (RouterCall(p) /\ Done(p) /\ call[p].req.method = "POST"
            /\ \E n \in RegisteredProviders : call[p].req.path = WebhookPathOf(n))
            => /\ loc[p].via = "routerWebhook"
               /\ out[p].kind = "response"
               /\ out[p].status \in {200, 500}
               /\ OptGet(out[p].body, "ok") \in {JBool(TRUE), JBool(FALSE)}
               /\ OptGet(out[p].body, "requestId") = JStr(call[p].requestId)

\* The worker answered the HTTP caller (its fetch returned a Response).
RouterAnswered(p) == RouterCall(p) /\ Done(p) /\ out[p].kind = "response"
\* A Response that carries stored media back to the caller (GET /media/:key).
IsServedMedia(o) == "contentType" \in DOMAIN o

\* C21: every response the worker returns, on every route and outcome, is a
\* JSON body with a boolean ok; on a failure it also has an error string and
\* the request's correlation id.  (The bytes served by GET /media/:key are
\* left aside.)
C21_EveryResponseStructured ==
    \A p \in Procs :
        (RouterAnswered(p) /\ ~IsServedMedia(out[p]))
            => /\ out[p].body.t = "object"
               /\ OptGet(out[p].body, "ok").t = "boolean"
               /\ (out[p].status \notin 200..299)
                     => /\ OptGet(out[p].body, "ok") = JBool(FALSE)
                        /\ OptGet(out[p].body, "error").t = "string"
                        /\ OptGet(out[p].body, "requestId") = JStr(call[p].requestId)

\* The routes that require credentials, and the credentials configured.
IsProtectedRequest(req) ==
    \/ req.method = "PUT" /\ req.path \in MediaPaths
    \/ req.method = "POST" /\ req.path = "/fax/send"
AuthConfigured(env) ==
    /\ "BASIC_AUTH_USER" \in DOMAIN env /\ env["BASIC_AUTH_USER"] # ""
    /\ "BASIC_AUTH_PASS" \in DOMAIN env /\ env["BASIC_AUTH_PASS"] # ""
\* The request's Authorization header is the Basic header of the configured pair.
PresentsConfiguredCredentials(req, env) ==
    req.auth = BasicHeaderFor(env["BASIC_AUTH_USER"], env["BASIC_AUTH_PASS"])
Answered401(p) ==
    /\ Done(p) /\ out[p].kind = "response" /\ out[p].status = 401
    /\ loc[p].via = "router" /\ puts[p] = <<>> /\ http[p] = <<>>
\* The provider is resolved before anything else (see C10).
ProviderResolves(p) == resolveProvider(call[p].env).ok

\* C22: with BASIC_AUTH_USER and BASIC_AUTH_PASS both configured, a PUT
\* /media/:key or POST /fax/send whose Authorization header is not the Basic
\* header of both values is answered 401 with no Blob Store write and no
\* sendFax; GET /media/:key and the webhook path need no credentials; with
\* either value unconfigured every request is allowed.
C22_BasicAuthGuardsWrites ==
    \A p \in Procs :
        (RouterCall(p) /\ ProviderResolves(p))
            => /\ ( /\ IsProtectedRequest(call[p].req)
                    /\ AuthConfigured(call[p].env)
                    /\ ~PresentsConfiguredCredentials(call[p].req, call[p].env) )
                      => Answered401(p)
               /\ ( \/ ~IsProtectedRequest(call[p].req)
                    \/ ~AuthConfigured(call[p].env) )
                      => ~(out[p].kind = "response" /\ out[p].status = 401)

\* C30: with both values configured, checkBasicAuth authorizes a request
\* exactly when it presents the configured user and password, whatever they
\* are (a password containing ':' included); any other pair is refused.
C30_AuthorizesExactlyConfiguredPair ==
    \A p \in Procs :
        (RouterCall(p) /\ AuthConfigured(call[p].env))
            => ( checkBasicAuth(call[p].req.auth, call[p].env)
                    <=> PresentsConfiguredCredentials(call[p].req, call[p].env) )

\* C27: every send request Dropbox issues carries test_mode = false when
\* DROPBOX_FAX_TEST_MODE is exactly "0" and test_mode = true for every other
\* value, the variable being unset included.
C27_TestModeOnUnlessZero ==
    \A p \in Procs :
        (InSendFax(p) /\ SendProvider(p) = "dropbox-fax")
            => \A i \in 1..Len(http[p]) :
                   OptGet(http[p][i].body.body.val, "test_mode")
                       = JBool(~( /\ "DROPBOX_FAX_TEST_MODE" \in DOMAIN SendEnv(p)
                                  /\ SendEnv(p)["DROPBOX_FAX_TEST_MODE"] = "0" ))

\* A live send: the variable is "0" and the request says test_mode false.
C27_Witness ==
    \E p \in Procs :
        /\ DirectSend(p) /\ call[p].provider = "dropbox-fax" /\ Done(p)
        /\ "DROPBOX_FAX_TEST_MODE" \in DOMAIN call[p].ctx.env
        /\ call[p].ctx.env["DROPBOX_FAX_TEST_MODE"] = "0"
        /\ Len(http[p]) = 1
        /\ OptGet(http[p][1].body.body.val, "test_mode") = JBool(FALSE)

\* POST /fax/send requests that pass the provider resolution and the
\* credential check, with a body of the announced kind (a form under a
\* multipart content type, a JSON object otherwise).
IsSendRequest(req) == req.method = "POST" /\ req.path = "/fax/send"
SendRouteReached(p) ==
    /\ RouterCall(p) /\ ProviderResolves(p) /\ IsSendRequest(call[p].req)
    /\ ~(Done(p) /\ out[p].kind = "response" /\ out[p].status = 401)
IsMultipart(req) == req.ct = "multipart/form-data; boundary=----fax"
WellFormedSend(req) ==
    IF IsMultipart(req) THEN req.body.enc = "form"
    ELSE req.body.enc = "json" /\ req.body.val.t = "object"
AbsentOrEmpty(v) == v.t \in {"undefined", "null"} \/ v = JStr("")
\* The first required field the request lacks, "" when it has them all.
MissingSendField(req) ==
    IF IsMultipart(req)
    THEN IF AbsentOrEmpty(Field(req.body.fields, "to")) THEN "to"
         ELSE IF \A i \in 1..Len(req.body.files) : req.body.files[i].key # "file"
         THEN "file"
         ELSE ""
    ELSE IF AbsentOrEmpty(OptGet(req.body.val, "to")) THEN "to"
         ELSE IF AbsentOrEmpty(OptGet(req.body.val, "media_key")) THEN "media_key"
         ELSE ""
\* The status of the result provider.sendFax returned to the router.
ProviderResultStatus(p) ==
    IF "reply" \in DOMAIN loc[p] THEN loc[p].reply.status ELSE 500

\* C28: a POST /fax/send lacking 'to', or 'file' (multipart) or 'media_key'
\* (JSON), is answered 400 with ok false and an error naming the field, with
\* no Blob Store write and no sendFax call; every other one calls sendFax
\* exactly once and is answered { ok, requestId, fax } with the status of the
\* provider's result.
C28_SendValidatedThenSentOnce ==
    \A p \in Procs :
        (SendRouteReached(p) /\ WellFormedSend(call[p].req) /\ Done(p))
            => LET missing == MissingSendField(call[p].req) IN
               IF missing # ""
               THEN /\ out[p].kind = "response" /\ out[p].status = 400
                    /\ OptGet(out[p].body, "ok") = JBool(FALSE)
                    /\ OptGet(out[p].body, "error")
                           = JStr("missing '" \o missing \o "' field")
                    /\ puts[p] = <<>> /\ http[p] = <<>>
                    /\ loc[p].via = "router"
               ELSE /\ loc[p].via = "routerSend"
                    /\ Len(http[p]) <= 1
                    /\ out[p].kind = "response"
                    /\ DOMAIN out[p].body.f = {"ok", "requestId", "fax"}
                    /\ OptGet(out[p].body, "requestId") = JStr(call[p].requestId)
                    /\ out[p].status = ProviderResultStatus(p)

\* The request ended with the 500 of a configuration error: the provider is
\* not supported, or sendFax found a required setting missing.
EndedInConfigError(p) ==
    /\ RouterCall(p) /\ IsSendRequest(call[p].req) /\ Done(p)
    /\ out[p].kind = "response" /\ out[p].status = 500
    /\ \/ ~ProviderResolves(p)
       \/ /\ loc[p].via = "routerSend"
          /\ TelnyxMissingConfig(call[p].env) # ""

\* C29: a POST /fax/send that ends in a configuration error (status 500)
\* leaves the Blob Store as it was, on the multipart and on the JSON path.
C29_ConfigErrorLeavesStoreUnchanged ==
    \A p \in Procs : EndedInConfigError(p) => (puts[p] = <<>> /\ kv = EmptyMap)

\* C24: within one webhook invocation no Blob Store key is written twice,
\* whatever the multipart body (number of file parts, filenames, field names).
C24_EachKeyWrittenOnce ==
    \A p \in Procs :
        InWebhook(p)
            => \A i, j \in 1..Len(puts[p]) :
                   (i # j) => (puts[p][i].key # puts[p][j].key)

\* Request p was a PUT /media/:key answered 200: its bytes were stored.
StoredBy(q, path) ==
    /\ RouterCall(q) /\ call[q].req.method = "PUT" /\ call[q].req.path = path
    /\ Done(q) /\ out[q].kind = "response" /\ out[q].status = 200
\* The successful PUTs of the path that ended before request p began.
EarlierPuts(p) ==
    {q \in Turns : TurnOrder(q) < TurnOrder(p) /\ StoredBy(q, call[p].req.path)}
LatestPut(p) ==
    CHOOSE q \in EarlierPuts(p) : \A r \in EarlierPuts(p) : TurnOrder(r) <= TurnOrder(q)
AnsweredGet(p) ==
    /\ RouterCall(p) /\ call[p].req.method = "GET" /\ call[p].req.path \in StorePaths
    /\ Done(p) /\ out[p].kind = "response"

\* C23: a GET /media/:key answered after a successful PUT of the key returns
\* exactly the bytes of the latest such PUT, with the content type that PUT
\* gave (application/octet-stream when it gave none); a GET of a key no PUT
\* stored is answered 404.
C23_MediaRoundTrip ==
    \A p \in Turns :
        AnsweredGet(p)
            => IF EarlierPuts(p) = {}
               THEN out[p].status = 404
               ELSE LET sent == call[LatestPut(p)].req IN
                    /\ out[p].status = 200
                    /\ out[p].body = JBytes(sent.body.text)
                    /\ out[p].contentType
                          = (IF sent.ct # "" THEN sent.ct ELSE "application/octet-stream")

\* Two PUTs of one key with different bytes and content types, then the GET.
C23_Witness ==
    /\ StoredBy("p1", "/media/my%20fax.pdf") /\ StoredBy("p2", "/media/my%20fax.pdf")
    /\ call["p1"].req.body.text # call["p2"].req.body.text
    /\ call["p1"].req.ct = "" /\ call["p2"].req.ct = "application/pdf"
    /\ AnsweredGet("p3") /\ call["p3"].req.path = "/media/my%20fax.pdf"
    /\ out["p3"].status = 200
    /\ out["p3"].body = JBytes("%PDF-1.4 second")

\* The fax id a delivery is for, as its handler reads it from the request.
DeliveryFaxId(p) ==
    LET req == call[p].req
        requestId == call[p].ctx.requestId
    IN  CASE call[p].provider = TelnyxName -> TelnyxFaxId(JsonParse(req.body), requestId)
          [] call[p].provider = SinchName -> SinchFormFaxId(req.body.fields, requestId)
          [] call[p].provider = DropboxName ->
                 IF req.body.enc = "form"
                 THEN DropboxFormFaxId(req.body.fields, requestId)
                 ELSE DropboxJsonFaxId(JsonParse(req.body), requestId)
PutKeys(p) == {puts[p][i].key : i \in 1..Len(puts[p])}

\* C25: two concurrent webhook deliveries for different fax ids write
\* disjoint sets of Blob Store keys, under every interleaving and for every
\* id, event type and filename.
C25_DifferentFaxIdsDisjointKeys ==
    \A p, q \in Deliveries :
        ( /\ p # q /\ DirectWebhook(p) /\ DirectWebhook(q)
          /\ DeliveryFaxId(p) # DeliveryFaxId(q) )
            => PutKeys(p) \cap PutKeys(q) = {}

\* Deliveries p and q are for the same fax of the same vendor.
SameFax(p, q) ==
    /\ p # q /\ DirectWebhook(p) /\ DirectWebhook(q)
    /\ call[p].provider = call[q].provider
    /\ DeliveryFaxId(p) = DeliveryFaxId(q)

\* C26: of two concurrent deliveries for the same fax id neither is refused
\* or deduplicated: every put of one lands whatever the other has written
\* (so a shared key holds the value of the put that completed last, and only
\* a put changes the store), and each delivery that meets no store or network
\* fault is answered 200.
C26_SameFaxLastWriteWins ==
    [][ /\ (puts' = puts) => (kv' = kv)
        /\ \A p, q \in Deliveries :
              SameFax(p, q)
                  => /\ (puts'[p] # puts[p])
                          => LET c == puts'[p][Len(puts'[p])] IN
                             /\ Len(puts'[p]) = Len(puts[p]) + 1
                             /\ kv' = (c.key :> [value |-> c.value,
                                                 metadata |-> c.metadata]) @@ kv
                     /\ (pc[p] # "done" /\ pc'[p] = "done")
                          => /\ out'[p].kind = "response"
                             /\ \/ out'[p].status = 200
                                \/ /\ out'[p].status = 500
                                   /\ OptGet(out'[p].body, "error") \in FaultErrors
      ]_vars

\* Both deliveries of one fax were answered 200 after writing different
\* values under one key, and the key holds the value of the second to put.
C26_Witness ==
    \E p, q \in Deliveries :
        /\ SameFax(p, q) /\ Answered200(p) /\ Answered200(q)
        /\ \E i \in 1..Len(puts[p]), j \in 1..Len(puts[q]) :
              /\ puts[p][i].key = puts[q][j].key
              /\ puts[p][i].value # puts[q][j].value
              /\ kv[puts[p][i].key].value = puts[p][i].value

====
